---- MODULE Spec2Model ----
(***************************************************************************)
(* A model of the document-ingestion core of rag_simples:                  *)
(*   - the Version Manager      (src/src/ingestion/document_versioning.py) *)
(*   - the Progress Tracker     (src/src/ingestion/progress_tracking.py)   *)
(*   - the Validation Manager   (src/src/ingestion/validation_system.py)   *)
(*   - the Pipeline Orchestrator(src/src/ingestion/ingestion_pipeline.py)  *)
(* Each subsystem has its own specification over the shared variables.     *)
(***************************************************************************)
EXTENDS Integers, Sequences, FiniteSets, TLC

VARIABLES
    versions,       \* DocumentVersionManager.versions : version_id -> DocumentVersion
    documents,      \* DocumentVersionManager.documents: document_id -> document entry
    now,            \* wall clock, in whole seconds (datetime.now() cut to %Y%m%d_%H%M%S)
    stamp,          \* number of created_at timestamps taken so far (sub-second clock)
    history,        \* (document_id, version_number) of every version ever created
    lastCreate,     \* the last call, when it was create_document_version: its
                    \* arguments and the version_id it returned; NoCreate otherwise
    lastCleanup     \* the last call, when it was cleanup_old_versions: its arguments
                    \* and the version ids it removed; NoCleanup otherwise

VARIABLES
    tracked,        \* ProgressTracker.documents : document_id -> DocumentProgress
    batches,        \* ProgressTracker.batches   : batch_id -> BatchProgress
    notifications,  \* ProgressTracker.notifications, in creation order
    metrics,        \* the keys of ProgressTracker.metrics : document_id -> ProcessingMetrics
    uuids,          \* number of uuid4() identifiers drawn for documents and batches
    calls,          \* number of update_document_progress calls so far (the tracker's clock)
    lastUpdate      \* the arguments of the last call, when it was
                    \* update_document_progress; NoUpdate otherwise

VARIABLES
    validated       \* the validator call made, with the ValidationResult it returned;
                    \* NoValidation before the call

VARIABLES
    config,         \* IngestionPipeline.config
    result,         \* the IngestionResult of the last ingest_document / ingest_file call
    lastIngest,     \* the arguments of that call, with the (stage, status) pairs it
                    \* reported to the Progress Tracker, in order
    ingests         \* number of ingest_document / ingest_file calls so far

VARIABLES
    docText,        \* the text handed to ChunkingSystem.chunk_document
    chunkConfig,    \* ChunkingSystem.config
    docChunks,      \* the chunks chunk_document returned; NoChunking before the call
    fixedLoop       \* FixedSizeChunker.chunk_text on docText, one iteration of its
                    \* while loop at a time: position, start_index, iterations made,
                    \* chunks appended

VARIABLES
    running,        \* ProgressTracker.running
    update_queue,   \* number of ('save_state', None) items in ProgressTracker.update_queue
    disk,           \* progress_state.json: <<>> when absent or just truncated, <<state>>
                    \* when it holds one serialized state, <<a, b>> when the bytes of
                    \* two overlapping writes are mixed
    saver,          \* per thread, its position inside _save_state and the state it built
    callerPc,       \* the calling thread's position in the tracker's public methods
    callerArgs,     \* the arguments of the update_document_progress call under way
    workerPc,       \* the update thread's position in _process_updates
    atShutdown      \* <<the in-memory state serialized at the time shutdown() was called>>

vmVars == <<versions, documents, now, stamp, history, lastCreate, lastCleanup>>

ptVars == <<tracked, batches, notifications, metrics, uuids, calls, lastUpdate>>

valVars == <<validated>>

pipeVars == <<config, result, lastIngest, ingests>>

chunkVars == <<docText, chunkConfig, docChunks, fixedLoop>>

workerVars == <<running, update_queue, disk, saver, callerPc, callerArgs, workerPc, atShutdown>>

vars == <<versions, documents, now, stamp, history, lastCreate, lastCleanup,
          tracked, batches, notifications, metrics, uuids, calls, lastUpdate,
          validated, config, result, lastIngest, ingests,
          docText, chunkConfig, docChunks, fixedLoop,
          running, update_queue, disk, saver, callerPc, callerArgs, workerPc, atShutdown>>

(***************************************************************************)
(* Bounds of the model.                                                    *)
(***************************************************************************)
MaxTime == 1          \* the clock runs over the seconds 0..MaxTime
MaxCreates == 2       \* version records created in one behaviour
NumContents == 3      \* distinct file contents
MaxKeep == 1          \* keep_count of cleanup_old_versions ranges over 0..MaxKeep

None == "None"

\* batch_id=None and document_id=None (identifiers are 1, 2, ...)
NoBatch == 0
NoDocument == 0

\* lastCleanup after a call that was not cleanup_old_versions
NoCleanup == [called |-> FALSE, document_id |-> <<>>, keep_count |-> 0, removed |-> {}]

\* lastCreate after a call that was not create_document_version
NoCreate == [called |-> FALSE, content |-> 0, filename |-> "", version_id |-> <<>>]

Contents == 0 .. (NumContents - 1)

\* Filenames with their Path(filename).stem.lower()
Filenames == {"Report.txt", "report.md"}

StemLower(filename) ==
    CASE filename = "Report.txt" -> "report"
      [] filename = "report.md"  -> "report"

(***************************************************************************)
(* Version Manager: pure helpers.                                          *)
(***************************************************************************)

\* hashlib.sha256(content).hexdigest(): injective on contents; the first 8 hex
\* digits (32 bits) are kept apart because _generate_version_id reads only those.
\* Contents 2k and 2k+1 agree on them.
CalculateContentHash(content) == [prefix |-> content \div 2, digest |-> content]

\* f"{base_name}_{timestamp}" with the timestamp cut to the second
GenerateDocumentId(filename, t) == <<StemLower(filename), t>>

\* md5(f"{document_id}_{content_hash[:8]}")[:16], taken as injective in its input
GenerateVersionId(document_id, content_hash) == <<document_id, content_hash.prefix>>

VersionLess(a, b) ==
    \/ a[1] < b[1]
    \/ a[1] = b[1] /\ a[2] < b[2]
    \/ a[1] = b[1] /\ a[2] = b[2] /\ a[3] < b[3]

MaxVersionNumber(S) == CHOOSE m \in S : \A x \in S : ~VersionLess(m, x)

VersionsOf(vs, document_id) ==
    {id \in DOMAIN vs : vs[id].document_id = document_id}

GetNextVersionNumberNoIncrement(vs, docs, document_id) ==
    IF document_id \notin DOMAIN docs THEN <<1, 0, 0>>
    ELSE IF VersionsOf(vs, document_id) = {} THEN <<1, 0, 0>>
    ELSE MaxVersionNumber({vs[id].version_number : id \in VersionsOf(vs, document_id)})

GetNextVersionNumber(vs, docs, document_id) ==
    IF document_id \notin DOMAIN docs THEN <<1, 0, 0>>
    ELSE IF VersionsOf(vs, document_id) = {} THEN <<1, 0, 0>>
    ELSE LET m == MaxVersionNumber({vs[id].version_number : id \in VersionsOf(vs, document_id)})
         IN  <<m[1], m[2], m[3] + 1>>

FindVersionByHashNever(vs, content_hash) == None

\* the first stored version with that hash, or None
FindVersionByHash(vs, content_hash) ==
    IF \E id \in DOMAIN vs : vs[id].content_hash = content_hash
    THEN CHOOSE id \in DOMAIN vs : vs[id].content_hash = content_hash
    ELSE None

\* sorted(versions of the document, key=created_at, reverse=True)
RECURSIVE SortNewestFirst(_, _)
SortNewestFirst(vs, ids) ==
    IF ids = {} THEN <<>>
    ELSE LET top == CHOOSE id \in ids : \A o \in ids : vs[o].created_at <= vs[id].created_at
         IN  <<top>> \o SortNewestFirst(vs, ids \ {top})

GetDocumentVersions(vs, document_id) == SortNewestFirst(vs, VersionsOf(vs, document_id))

GetLatestVersion(vs, document_id) ==
    LET l == GetDocumentVersions(vs, document_id)
    IN  IF l = <<>> THEN None ELSE l[1]

\* dict without a key
Without(f, k) == [x \in (DOMAIN f) \ {k} |-> f[x]]

\* dict with a key set (a new key, or an existing one overwritten)
With(f, k, v) == [x \in (DOMAIN f) \cup {k} |-> IF x = k THEN v ELSE f[x]]

(***************************************************************************)
(* Version Manager: operations, as functions from a state to the new state *)
(* and the lastCreate value.                                                 *)
(***************************************************************************)

\* create_document_version; t = the clock second, ts = the created_at stamp
CreateDocumentVersion(vs, docs, content, filename, t, ts) ==
    LET content_hash == CalculateContentHash(content)
        existing     == FindVersionByHash(vs, content_hash)
        document_id  == GenerateDocumentId(filename, t)
        version_id   == GenerateVersionId(document_id, content_hash)
        version      == [version_id        |-> version_id,
                         document_id       |-> document_id,
                         version_number    |-> GetNextVersionNumber(vs, docs, document_id),
                         content_hash      |-> content_hash,
                         original_filename |-> filename,
                         created_at        |-> ts,
                         status            |-> "ACTIVE",
                         processing_info   |-> None]
    IN  IF existing # None
        THEN [versions |-> vs, documents |-> docs, created |-> FALSE, version |-> vs[existing]]
        ELSE [versions  |-> With(vs, version_id, version),
              documents |->
                 IF document_id \notin DOMAIN docs
                 THEN With(docs, document_id,
                           [original_filename |-> filename,
                            latest_version    |-> version_id,
                            version_count     |-> 1])
                 ELSE With(docs, document_id,
                           [docs[document_id] EXCEPT !.latest_version = version_id,
                                                     !.version_count  = @ + 1]),
              created   |-> TRUE,
              version   |-> version]

\* delete_version, for a stored version_id
DeleteVersion(vs, docs, version_id) ==
    LET document_id == vs[version_id].document_id
        vs2         == Without(vs, version_id)
    IN  [versions  |-> vs2,
         documents |->
            IF document_id \notin DOMAIN docs THEN docs
            ELSE IF docs[document_id].latest_version # version_id
            THEN [docs EXCEPT ![document_id].version_count = @ - 1]
            ELSE IF GetDocumentVersions(vs2, document_id) # <<>>
            THEN [docs EXCEPT ![document_id].version_count  = @ - 1,
                              ![document_id].latest_version =
                                    GetDocumentVersions(vs2, document_id)[1]]
            ELSE Without(docs, document_id)]

\* the loop of cleanup_old_versions over versions[keep_count:]
RECURSIVE CleanupLoop(_, _, _)
CleanupLoop(vs, docs, to_remove) ==
    IF to_remove = <<>> THEN [versions |-> vs, documents |-> docs]
    ELSE LET id == Head(to_remove)
         IN  IF vs[id].status # "ACTIVE"
             THEN LET d == DeleteVersion(vs, docs, id)
                  IN  CleanupLoop(d.versions, d.documents, Tail(to_remove))
             ELSE CleanupLoop(vs, docs, Tail(to_remove))

\* cleanup_old_versions
CleanupOldVersionsAnyStatus(vs, docs, document_id, keep_count) ==
    LET l == GetDocumentVersions(vs, document_id)
        dropped == {l[i] : i \in (keep_count + 1)..Len(l)}
    IN  [versions |-> [id \in (DOMAIN vs) \ dropped |-> vs[id]], documents |-> docs]
CleanupOldVersions(vs, docs, document_id, keep_count) ==
    LET l == GetDocumentVersions(vs, document_id)
    IN  IF Len(l) <= keep_count
        THEN [versions |-> vs, documents |-> docs]
        ELSE CleanupLoop(vs, docs, SubSeq(l, keep_count + 1, Len(l)))

\* update_processing_info, for a stored version_id
UpdateProcessingInfo(vs, version_id, processing_result) ==
    [vs EXCEPT ![version_id].processing_info = processing_result,
               ![version_id].status = IF processing_result.success THEN "ACTIVE"
                                      ELSE "ERROR"]

\* archive_version, for a stored version_id
ArchiveVersion(vs, version_id) == [vs EXCEPT ![version_id].status = "ARCHIVED"]

(***************************************************************************)
(* Version Manager: actions.                                               *)
(* An operation's outcome is drawn from the one-element set holding it, so *)
(* that it is computed once for the step.                                  *)
(***************************************************************************)
VMInit ==
    /\ versions = <<>>
    /\ documents = <<>>
    /\ now = 0
    /\ stamp = 0
    /\ history = {}
    /\ lastCreate = NoCreate
    /\ lastCleanup = NoCleanup

\* lastUpdate after a call that was not update_document_progress
NoUpdate == [called |-> FALSE, document_id |-> 0, stage |-> "", status |-> ""]

\* a ProgressTracker constructed on an empty storage path
PTInit ==
    /\ tracked = <<>>
    /\ batches = <<>>
    /\ notifications = <<>>
    /\ metrics = {}
    /\ uuids = 0
    /\ calls = 0
    /\ lastUpdate = NoUpdate

\* validated before any validator was called
NoValidation == [called |-> FALSE, validator |-> "", disabled |-> {}, result |-> <<>>]

ValIdle == validated = NoValidation

\* IngestionConfig() with its default values
DefaultConfig ==
    [enable_versioning         |-> TRUE,
     enable_validation         |-> TRUE,
     stop_on_validation_error  |-> FALSE,
     enable_progress_tracking  |-> TRUE,
     enable_deduplication      |-> TRUE,
     archive_old_versions      |-> TRUE,
     max_versions_per_document |-> 5]

\* document_version=None
NoVersion == <<>>

\* error_message=None
NoError == <<>>

\* IngestionResult; chunked and validated tell whether the chunker and the
\* validators ran (validation_results is not None), created whether
\* create_document_version stored a new version
IngestionResult(success, document_version, chunks, tracking_id, chunker_ran, validators_ran, is_pipeline_valid, validation_issues, created) ==
    [success           |-> success,
     document_version  |-> document_version,
     chunks            |-> chunks,
     tracking_id       |-> tracking_id,
     chunked           |-> chunker_ran,
     validated         |-> validators_ran,
     is_pipeline_valid |-> is_pipeline_valid,
     validation_issues |-> validation_issues,
     created           |-> created,
     error_message     |-> NoError]

\* IngestionResult(..., error_message=error_msg)
WithError(returned, error_message) == [returned EXCEPT !.error_message = error_message]

\* result before any call
NoResult == IngestionResult(FALSE, NoVersion, 0, NoDocument, FALSE, FALSE, TRUE, <<>>, FALSE)

\* lastIngest before any call
NoIngest == [called |-> FALSE, content |-> 0, filename |-> "", temp_file_path |-> FALSE, missing |-> FALSE, reported |-> <<>>]

\* a pipeline with the default configuration, before any call
PipeIdle ==
    /\ config = DefaultConfig
    /\ result = NoResult
    /\ lastIngest = NoIngest
    /\ ingests = 0

\* ChunkConfig() with its default values
DefaultChunkConfig ==
    [chunk_size         |-> 1000,
     chunk_overlap      |-> 200,
     strategy           |-> "fixed_size",
     preserve_structure |-> TRUE,
     min_chunk_size     |-> 100]

\* docChunks before chunk_document was called
NoChunking == [called |-> FALSE, chunks |-> <<>>]

\* fixedLoop before FixedSizeChunker.chunk_text was called
NoLoop == [pc |-> "idle", start_index |-> 0, iterations |-> 0, chunks |-> <<>>]

\* a chunking system with the default configuration, before any call
ChunkIdle ==
    /\ docText = <<>>
    /\ chunkConfig = DefaultChunkConfig
    /\ docChunks = NoChunking
    /\ fixedLoop = NoLoop

\* the thread calling the tracker's methods and the update thread
Threads == {"caller", "worker"}

\* a thread that is not inside _save_state
NotSaving == [pc |-> "idle", state |-> <<>>, with |-> <<>>]

\* a ProgressTracker just constructed on an empty storage path: the update
\* thread is started, nothing is queued and no state file is written
WorkerIdle ==
    /\ running = TRUE
    /\ update_queue = 0
    /\ disk = <<>>
    /\ saver = [th \in Threads |-> NotSaving]
    /\ callerPc = "idle"
    /\ callerArgs = NoUpdate
    /\ workerPc = "loop"
    /\ atShutdown = <<>>

Init == VMInit /\ PTInit /\ ValIdle /\ PipeIdle /\ ChunkIdle /\ WorkerIdle

VMCreate(content, filename) ==
    /\ stamp < MaxCreates
    /\ \E r \in {CreateDocumentVersion(versions, documents, content, filename, now, stamp + 1)} :
           /\ versions' = r.versions
           /\ documents' = r.documents
           /\ stamp' = IF r.created THEN stamp + 1 ELSE stamp
           /\ history' = IF r.created
                         THEN history \cup {[document_id    |-> r.version.document_id,
                                             version_number |-> r.version.version_number]}
                         ELSE history
           /\ lastCreate' = [called |-> TRUE, content |-> content, filename |-> filename,
                             version_id |-> r.version.version_id]
    /\ lastCleanup' = NoCleanup
    /\ UNCHANGED now
    /\ UNCHANGED <<ptVars, valVars, pipeVars, chunkVars, workerVars>>

VMDelete(version_id) ==
    /\ version_id \in DOMAIN versions
    /\ \E r \in {DeleteVersion(versions, documents, version_id)} :
           /\ versions' = r.versions
           /\ documents' = r.documents
    /\ lastCreate' = NoCreate
    /\ lastCleanup' = NoCleanup
    /\ UNCHANGED <<now, stamp, history>>
    /\ UNCHANGED <<ptVars, valVars, pipeVars, chunkVars, workerVars>>

VMCleanup(document_id, keep_count) ==
    /\ \E r \in {CleanupOldVersions(versions, documents, document_id, keep_count)} :
           /\ versions' = r.versions
           /\ documents' = r.documents
           /\ lastCleanup' = [called |-> TRUE, document_id |-> document_id,
                              keep_count |-> keep_count,
                              removed |-> (DOMAIN versions) \ DOMAIN r.versions]
    /\ lastCreate' = NoCreate
    /\ UNCHANGED <<now, stamp, history>>
    /\ UNCHANGED <<ptVars, valVars, pipeVars, chunkVars, workerVars>>

VMArchive(version_id) ==
    /\ version_id \in DOMAIN versions
    /\ versions' = ArchiveVersion(versions, version_id)
    /\ lastCreate' = NoCreate
    /\ lastCleanup' = NoCleanup
    /\ UNCHANGED <<documents, now, stamp, history>>
    /\ UNCHANGED <<ptVars, valVars, pipeVars, chunkVars, workerVars>>

\* a second of wall-clock time passes
Tick ==
    /\ now < MaxTime
    /\ now' = now + 1
    /\ UNCHANGED <<versions, documents, stamp, history, lastCreate, lastCleanup>>
    /\ UNCHANGED <<ptVars, valVars, pipeVars, chunkVars, workerVars>>

VMNext ==
    \/ \E c \in Contents, f \in Filenames : VMCreate(c, f)
    \/ \E id \in DOMAIN versions : VMDelete(id)
    \/ \E d \in DOMAIN documents, k \in 0 .. MaxKeep : VMCleanup(d, k)
    \/ \E id \in DOMAIN versions : VMArchive(id)
    \/ Tick

SpecVM == Init /\ [][VMNext]_vars

(***************************************************************************)
(* Version Manager: properties.                                            *)
(***************************************************************************)
HashStored(vs, content) ==
    \E id \in DOMAIN vs : vs[id].content_hash = CalculateContentHash(content)

\* C1: create_document_version on content whose hash is already stored (under
\* the same or another filename) returns the stored version's version_id,
\* adds no version record and leaves every document entry (version_count,
\* latest_version) as it was.
C1_DedupIdempotent ==
    [][(lastCreate'.called /\ HashStored(versions, lastCreate'.content)) =>
         /\ lastCreate'.version_id \in DOMAIN versions
         /\ versions[lastCreate'.version_id].content_hash =
                CalculateContentHash(lastCreate'.content)
         /\ versions' = versions
         /\ documents' = documents]_vars

\* a create call was answered with a version stored under another filename
C1_Witness ==
    /\ lastCreate.called
    /\ lastCreate.version_id \in DOMAIN versions
    /\ versions[lastCreate.version_id].original_filename # lastCreate.filename
    /\ versions[lastCreate.version_id].content_hash = CalculateContentHash(lastCreate.content)

\* the version record made by the step that took created_at stamp n
CreatedAt(vs, n) == CHOOSE id \in DOMAIN vs : vs[id].created_at = n

\* C2: every newly created version of a document_id carries a version number
\* strictly greater than that of every version created before for the same
\* document_id, deleted ones included.
C2_GreaterThanAllPrior ==
    [][stamp' # stamp =>
         LET new == versions'[CreatedAt(versions', stamp')]
         IN  \A h \in history :
                h.document_id = new.document_id =>
                    VersionLess(h.version_number, new.version_number)]_vars

\* C3: versions created under the same filename belong to the same
\* document_id, whatever time passed between the calls, and are numbered in
\* call order.
C3_SameFilenameSameLineage ==
    \A a, b \in DOMAIN versions :
        versions[a].original_filename = versions[b].original_filename =>
            /\ versions[a].document_id = versions[b].document_id
            /\ (versions[a].created_at < versions[b].created_at =>
                    VersionLess(versions[a].version_number, versions[b].version_number))

(***************************************************************************)
(* Progress Tracker: data and pure helpers.                                *)
(***************************************************************************)
MaxDocs == 2          \* documents tracked in one behaviour
MaxBatches == 1       \* batches started in one behaviour
MaxBatchDocs == 2     \* start_batch takes 1..MaxBatchDocs filenames
MaxUpdates == 2       \* update_document_progress calls in one behaviour

\* class ProcessingStage, in declaration order
ProcessingStage ==
    <<"UPLOAD", "PARSING", "CHUNKING", "METADATA_EXTRACTION", "VALIDATION",
      "VERSIONING", "STORAGE", "COMPLETED", "FAILED">>

Stages == {ProcessingStage[i] : i \in DOMAIN ProcessingStage}

\* class ProcessingStatus
ProcessingStatus == {"QUEUED", "IN_PROGRESS", "COMPLETED", "FAILED", "CANCELLED"}

\* The stages and statuses passed to update_document_progress in this model.
\* The code tells apart the stages UPLOAD, COMPLETED and any other, and the
\* statuses None, COMPLETED, FAILED and any other; the orchestrator passes
\* only None, COMPLETED and FAILED.
UpdateStages == {"UPLOAD", "PARSING", "COMPLETED", "FAILED"}

UpdateStatuses == {None, "COMPLETED", "FAILED"}

\* BatchProgress.completed_at = None (time.time() is positive)
NotCompleted == 0

\* the tracker's maps, as one value, with the reading of time.time()
TrackerState ==
    [documents |-> tracked, batches |-> batches, notifications |-> notifications,
     metrics |-> metrics, clock |-> now]

\* _notify
Notify(pt, type, document_id, batch_id) ==
    [pt EXCEPT !.notifications =
        Append(@, [type |-> type, document_id |-> document_id, batch_id |-> batch_id,
                   timestamp |-> pt.clock])]

\* start_document_processing; doc_id is the fresh uuid
StartDocumentProcessing(pt, doc_id, batch_id) ==
    [pt EXCEPT !.documents =
        With(@, doc_id, [status        |-> "QUEUED",
                         current_stage |-> "UPLOAD",
                         stages        |-> <<>>,
                         batch_id      |-> batch_id,
                         updated_at    |-> pt.clock]),
               !.metrics = @ \cup {doc_id}]

\* the loop of start_batch over the filenames; doc_ids are the fresh uuids
RECURSIVE StartBatchDocuments(_, _, _)
StartBatchDocuments(pt, batch_id, doc_ids) ==
    IF doc_ids = <<>> THEN pt
    ELSE LET p1 == StartDocumentProcessing(pt, Head(doc_ids), batch_id)
             p2 == [p1 EXCEPT !.batches[batch_id].documents = @ \cup {Head(doc_ids)}]
         IN  StartBatchDocuments(p2, batch_id, Tail(doc_ids))

\* start_batch
StartBatch(pt, batch_id, doc_ids) ==
    LET p0 == [pt EXCEPT !.batches =
                  With(@, batch_id, [total_documents |-> Len(doc_ids),
                                     documents       |-> {},
                                     started_at      |-> pt.clock,
                                     completed_at    |-> NotCompleted])]
    IN  Notify(StartBatchDocuments(p0, batch_id, doc_ids), "INFO", NoDocument, batch_id)

\* BatchProgress.completed_documents / failed_documents: batch.documents holds
\* the same DocumentProgress objects as ProgressTracker.documents
CompletedDocuments(pt, batch_id) ==
    Cardinality({d \in pt.batches[batch_id].documents :
                    pt.documents[d].status = "COMPLETED"})

FailedDocuments(pt, batch_id) ==
    Cardinality({d \in pt.batches[batch_id].documents :
                    pt.documents[d].status = "FAILED"})

\* BatchProgress.overall_progress, in whole percent (rounded down)
BatchOverallProgress(pt, batch_id) ==
    IF pt.batches[batch_id].total_documents = 0 THEN 100
    ELSE (CompletedDocuments(pt, batch_id) * 100) \div pt.batches[batch_id].total_documents

IsCompletedIgnoringFailures(pt, batch_id) ==
    CompletedDocuments(pt, batch_id) >= pt.batches[batch_id].total_documents

\* BatchProgress.is_completed
IsCompleted(pt, batch_id) ==
    CompletedDocuments(pt, batch_id) + FailedDocuments(pt, batch_id)
        >= pt.batches[batch_id].total_documents

\* DocumentProgress.update_stage (status None leaves the stage's status alone);
\* t is time.time()
UpdateStage(doc, stage, status, t) ==
    LET started == IF stage \in DOMAIN doc.stages THEN doc.stages
                   ELSE With(doc.stages, stage, "IN_PROGRESS")
    IN  [doc EXCEPT !.updated_at = t,
                    !.current_stage = stage,
                    !.stages = IF status # None THEN With(started, stage, status)
                               ELSE started]

DocStatusAfterIgnoringFailure(old_status, stage, status) ==
    IF status = "COMPLETED" /\ stage = "COMPLETED" THEN "COMPLETED"
    ELSE IF old_status = "QUEUED" /\ stage # "UPLOAD" THEN "IN_PROGRESS"
    ELSE old_status

DocStatusAfterCompletedAnywhere(old_status, stage, status) ==
    IF status = "COMPLETED" THEN "COMPLETED"
    ELSE IF status = "FAILED" THEN "FAILED"
    ELSE IF old_status = "QUEUED" /\ stage # "UPLOAD" THEN "IN_PROGRESS"
    ELSE old_status

\* the if / elif / elif of update_document_progress on the document's status
DocStatusAfter(old_status, stage, status) ==
    IF status = "COMPLETED" /\ stage = "COMPLETED" THEN "COMPLETED"
    ELSE IF status = "FAILED" THEN "FAILED"
    ELSE IF old_status = "QUEUED" /\ stage # "UPLOAD" THEN "IN_PROGRESS"
    ELSE old_status

\* update_document_progress; t is time.time()
UpdateDocumentProgress(pt, document_id, stage, status, t) ==
    IF document_id \notin DOMAIN pt.documents THEN pt
    ELSE
    LET doc1     == UpdateStage(pt.documents[document_id], stage, status, pt.clock)
        doc2     == [doc1 EXCEPT !.status = DocStatusAfter(doc1.status, stage, status)]
        p1       == [pt EXCEPT !.documents[document_id] = doc2]
        p2       == IF status = "COMPLETED" /\ stage = "COMPLETED"
                    THEN Notify(p1, "SUCCESS", document_id, NoBatch)
                    ELSE IF status = "FAILED"
                    THEN Notify(p1, "ERROR", document_id, NoBatch)
                    ELSE p1
        batch_id == doc2.batch_id
    IN  IF /\ batch_id # NoBatch
           /\ batch_id \in DOMAIN p2.batches
           /\ IsCompleted(p2, batch_id)
           /\ p2.batches[batch_id].completed_at = NotCompleted
        THEN Notify([p2 EXCEPT !.batches[batch_id].completed_at = t],
                    "SUCCESS", NoDocument, batch_id)
        ELSE p2

(***************************************************************************)
(* Progress Tracker: actions.                                              *)
(***************************************************************************)
PTStartDocument(batch_id) ==
    /\ Cardinality(DOMAIN tracked) < MaxDocs
    /\ \E pt \in {StartDocumentProcessing(TrackerState, uuids + 1, batch_id)} :
           /\ tracked' = pt.documents
           /\ batches' = pt.batches
           /\ notifications' = pt.notifications
           /\ metrics' = pt.metrics
    /\ uuids' = uuids + 1
    /\ lastUpdate' = NoUpdate
    /\ UNCHANGED calls
    /\ UNCHANGED <<vmVars, valVars, pipeVars, chunkVars, workerVars>>

PTStartBatch(n) ==
    /\ Cardinality(DOMAIN batches) < MaxBatches
    /\ Cardinality(DOMAIN tracked) + n <= MaxDocs
    /\ \E pt \in {StartBatch(TrackerState, uuids + 1, [i \in 1 .. n |-> uuids + 1 + i])} :
           /\ tracked' = pt.documents
           /\ batches' = pt.batches
           /\ notifications' = pt.notifications
           /\ metrics' = pt.metrics
    /\ uuids' = uuids + 1 + n
    /\ lastUpdate' = NoUpdate
    /\ UNCHANGED calls
    /\ UNCHANGED <<vmVars, valVars, pipeVars, chunkVars, workerVars>>

\* a call of update_document_progress
PTUpdateCall(document_id, stage, status) ==
    /\ document_id \in DOMAIN tracked
    /\ \E pt \in {UpdateDocumentProgress(TrackerState, document_id, stage, status, calls + 1)} :
           /\ tracked' = pt.documents
           /\ batches' = pt.batches
           /\ notifications' = pt.notifications
           /\ metrics' = pt.metrics
    /\ calls' = calls + 1
    /\ lastUpdate' = [called |-> TRUE, document_id |-> document_id,
                      stage |-> stage, status |-> status]
    /\ UNCHANGED uuids
    /\ UNCHANGED <<vmVars, valVars, pipeVars, chunkVars, workerVars>>

PTUpdate(document_id, stage, status) ==
    /\ calls < MaxUpdates
    /\ PTUpdateCall(document_id, stage, status)

PTNext ==
    \/ \E b \in {NoBatch} \cup DOMAIN batches : PTStartDocument(b)
    \/ \E n \in 1 .. MaxBatchDocs : PTStartBatch(n)
    \/ \E d \in DOMAIN tracked, s \in UpdateStages, st \in UpdateStatuses :
          PTUpdate(d, s, st)

SpecPT == Init /\ [][PTNext]_vars

(***************************************************************************)
(* Progress Tracker: properties.                                           *)
(***************************************************************************)
\* number of notifications of a type about a document / about a batch
CountNotifications(ns, type, document_id, batch_id) ==
    Cardinality({i \in DOMAIN ns : /\ ns[i].type = type
                                   /\ ns[i].document_id = document_id
                                   /\ ns[i].batch_id = batch_id})

\* C5: for a batch created by start_batch (with its member documents), after
\* every update_document_progress call overall_progress is
\* completed/total x 100 (in whole percent), and the batch is marked completed
\* (completed_at set, one batch SUCCESS notification) by the first update
\* after which completed + failed >= total, and by no later update.
C5_BatchCompletedOnce ==
    [][calls' # calls =>
         \A b \in DOMAIN batches :
            LET members   == batches[b].documents
                total     == batches[b].total_documents
                completed == Cardinality({m \in members : tracked'[m].status = "COMPLETED"})
                failed    == Cardinality({m \in members : tracked'[m].status = "FAILED"})
                progress  == BatchOverallProgress(TrackerState', b)
                was       == batches[b].completed_at
                is        == batches'[b].completed_at
                successes == CountNotifications(notifications', "SUCCESS", NoDocument, b)
            IN  /\ progress * total <= completed * 100
                /\ completed * 100 < (progress + 1) * total
                /\ (is # NotCompleted) <=> (completed + failed >= total)
                /\ (was = NotCompleted /\ is # NotCompleted) => is = calls'
                /\ was # NotCompleted => is = was
                /\ successes = IF completed + failed >= total THEN 1 ELSE 0]_vars

\* a batch of two documents, one COMPLETED and one FAILED, marked completed by
\* the second update with exactly one batch SUCCESS notification
C5_Witness ==
    \E b \in DOMAIN batches :
        /\ batches[b].total_documents = 2
        /\ \E m1, m2 \in batches[b].documents :
              tracked[m1].status = "COMPLETED" /\ tracked[m2].status = "FAILED"
        /\ batches[b].completed_at = 2
        /\ CountNotifications(notifications, "SUCCESS", NoDocument, b) = 1

\* a batch of one document, marked completed by the first update and left
\* alone by the second
C5_WitnessLater ==
    \E b \in DOMAIN batches :
        /\ batches[b].total_documents = 1
        /\ batches[b].completed_at = 1
        /\ calls = 2
        /\ \A m \in batches[b].documents : tracked[m].status = "COMPLETED"
        /\ CountNotifications(notifications, "ERROR", NoDocument, NoBatch) = 0
        /\ \E m \in batches[b].documents :
              CountNotifications(notifications, "ERROR", m, NoBatch) = 1
        /\ CountNotifications(notifications, "SUCCESS", NoDocument, b) = 1

\* a step of start_document_processing / start_batch: every record it creates
\* has status QUEUED, stage UPLOAD and no stage entries
StartsQueued ==
    \A d \in (DOMAIN tracked') \ (DOMAIN tracked) :
        /\ tracked'[d].status = "QUEUED"
        /\ tracked'[d].current_stage = "UPLOAD"
        /\ DOMAIN tracked'[d].stages = {}

\* what an update with a terminal or a stage-completing status does to the
\* document it names
TerminalEffects ==
    LET u      == lastUpdate'
        d      == u.document_id
        before == tracked[d]
        after  == tracked'[d]
    IN  /\ (u.status = "COMPLETED" /\ u.stage = "COMPLETED") =>
              /\ after.status = "COMPLETED"
              /\ CountNotifications(notifications', "SUCCESS", d, NoBatch)
                    = CountNotifications(notifications, "SUCCESS", d, NoBatch) + 1
        /\ u.status = "FAILED" =>
              /\ after.status = "FAILED"
              /\ CountNotifications(notifications', "ERROR", d, NoBatch)
                    = CountNotifications(notifications, "ERROR", d, NoBatch) + 1
        /\ (u.status = "COMPLETED" /\ u.stage # "COMPLETED") =>
              /\ after.stages[u.stage] = "COMPLETED"
              /\ \A s \in DOMAIN before.stages : s # u.stage => after.stages[s] = before.stages[s]
              /\ DOMAIN after.stages = DOMAIN before.stages \cup {u.stage}
              /\ (after.status = "COMPLETED" => before.status = "COMPLETED")
              /\ CountNotifications(notifications', "SUCCESS", d, NoBatch)
                    = CountNotifications(notifications, "SUCCESS", d, NoBatch)

\* C6 (as amended): start_document_processing creates the record QUEUED at
\* UPLOAD; the first update whose stage is not UPLOAD moves a QUEUED document
\* to IN_PROGRESS unless that update is itself terminal (status FAILED, or
\* status COMPLETED at stage COMPLETED); COMPLETED at COMPLETED makes the
\* document COMPLETED with a SUCCESS notification; FAILED at any stage makes
\* it FAILED with an ERROR notification; COMPLETED at another stage completes
\* only that stage.
C6_Lifecycle ==
    [][/\ StartsQueued
       /\ calls' # calls =>
             /\ TerminalEffects
             /\ ( /\ tracked[lastUpdate'.document_id].status = "QUEUED"
                  /\ lastUpdate'.stage # "UPLOAD"
                  /\ lastUpdate'.status # "FAILED"
                  /\ ~(lastUpdate'.status = "COMPLETED" /\ lastUpdate'.stage = "COMPLETED") )
                => tracked'[lastUpdate'.document_id].status = "IN_PROGRESS"]_vars

\* a document that went QUEUED -> IN_PROGRESS by completing the PARSING stage
\* and was then finalised by COMPLETED at stage COMPLETED
C6_Witness ==
    /\ lastUpdate.called
    /\ lastUpdate.stage = "COMPLETED"
    /\ lastUpdate.status = "COMPLETED"
    /\ tracked[lastUpdate.document_id].status = "COMPLETED"
    /\ "PARSING" \in DOMAIN tracked[lastUpdate.document_id].stages
    /\ tracked[lastUpdate.document_id].stages["PARSING"] = "COMPLETED"
    /\ CountNotifications(notifications, "SUCCESS", lastUpdate.document_id, NoBatch) = 1

\* C6 (as stated): the same, with the first update whose stage is not UPLOAD
\* moving a QUEUED document to IN_PROGRESS whatever its status.
C6_LifecycleAsStated ==
    [][/\ StartsQueued
       /\ calls' # calls =>
             /\ TerminalEffects
             /\ ( /\ tracked[lastUpdate'.document_id].status = "QUEUED"
                  /\ lastUpdate'.stage # "UPLOAD" )
                => tracked'[lastUpdate'.document_id].status = "IN_PROGRESS"]_vars

\* C7: once a tracked document's status is COMPLETED or FAILED, no later
\* update_document_progress call changes it.
C7_TerminalStatusFinal ==
    [][\A d \in DOMAIN tracked :
          tracked[d].status \in {"COMPLETED", "FAILED"} =>
              tracked'[d].status = tracked[d].status]_vars


(***************************************************************************)
(* Validation: results and rule checks.                                    *)
(*                                                                         *)
(* What a validator reads from the file system, the text or a regular      *)
(* expression is given to it as a record of facts; the control flow over   *)
(* the rules, the issue list, the counters and is_valid are as in the code.*)
(***************************************************************************)
MaxChunks == 2        \* chunks handed to validate_chunks

\* the outcome of one rule check: an issue (or "none") and whether
\* passed_checks was incremented
Pass(rule) == [rule_name |-> rule, severity |-> "none", passed |-> TRUE]

Issue(rule, severity) == [rule_name |-> rule, severity |-> severity, passed |-> FALSE]

IssueAndPass(rule, severity) == [rule_name |-> rule, severity |-> severity, passed |-> TRUE]

\* the rule is disabled, or its check applies to nothing
Skip(rule) == [rule_name |-> rule, severity |-> "none", passed |-> FALSE]

\* the issues list built by a run of checks
IssuesOf(checks) ==
    LET found == SelectSeq(checks, LAMBDA c : c.severity # "none")
    IN  [i \in DOMAIN found |->
            [rule_name |-> found[i].rule_name, severity |-> found[i].severity]]

PassedChecks(checks) == Cardinality({i \in DOMAIN checks : checks[i].passed})

\* has_critical / has_errors over an issue list
HasSeverity(issues, severity) == \E i \in DOMAIN issues : issues[i].severity = severity

\* the ValidationResult built at the end of a validator
Finish(checks, total_checks) ==
    [raised        |-> FALSE,
     is_valid      |-> ~(HasSeverity(IssuesOf(checks), "CRITICAL")
                            \/ HasSeverity(IssuesOf(checks), "ERROR")),
     issues        |-> IssuesOf(checks),
     total_checks  |-> total_checks,
     passed_checks |-> PassedChecks(checks)]

\* the ValidationResult built on an early return (is_valid=False)
ShortCircuit(checks, total_checks) ==
    [raised        |-> FALSE,
     is_valid      |-> FALSE,
     issues        |-> IssuesOf(checks),
     total_checks  |-> total_checks,
     passed_checks |-> PassedChecks(checks)]

\* the validator raised instead of returning a ValidationResult
Raises ==
    [raised |-> TRUE, is_valid |-> FALSE, issues |-> <<>>,
     total_checks |-> 0, passed_checks |-> 0]

DocumentRules ==
    {"file_exists", "file_accessible", "file_size", "file_type", "file_extension",
     "filename_format", "encoding_detection"}

ContentRules ==
    {"content_not_empty", "content_length", "text_quality", "language_detection",
     "encoding_consistency", "structure_integrity"}

ChunkRules ==
    {"chunk_not_empty", "chunk_size_limits", "overlap_validation", "chunk_boundaries",
     "content_coherence", "metadata_consistency"}

MetadataRules ==
    {"required_fields", "field_types", "email_format", "phone_format", "url_format",
     "completeness"}

\* mimetypes.guess_type on the file's extension
MimeType(extension) ==
    CASE extension = ".txt"  -> "text/plain"
      [] extension = ".pdf"  -> "application/pdf"
      [] extension = ".md"   -> "text/markdown"
      [] extension = ".html" -> "text/html"
      [] OTHER               -> "application/octet-stream"

AllowedTypes == {"text/plain", "text/markdown", "application/pdf",
                 "application/vnd.openxmlformats-officedocument.wordprocessingml.document"}

AllowedExtensions == {".txt", ".md", ".pdf", ".docx"}

\* mime_type and mime_type.startswith('text/')
IsTextType(mime_type) == mime_type \in {"text/plain", "text/markdown", "text/html"}

(***************************************************************************)
(* DocumentValidator.validate_file.  disabled = the rules with enabled =   *)
(* False; f = [exists, access, size_ok, extension, name_ok, chardet].      *)
(***************************************************************************)
ValidateFile(disabled, f) ==
    LET on(rule)  == rule \notin disabled
        exists    == IF ~on("file_exists") THEN Skip("file_exists")
                     ELSE IF f.exists THEN Pass("file_exists")
                     ELSE Issue("file_exists", "CRITICAL")
        access    == IF ~on("file_accessible") THEN Skip("file_accessible")
                     ELSE IF f.access = "ok" THEN Pass("file_accessible")
                     ELSE IF f.access = "permission" THEN Issue("file_accessible", "CRITICAL")
                     ELSE Issue("file_accessible", "ERROR")
        size      == IF ~on("file_size") THEN Skip("file_size")
                     ELSE IF f.size_ok THEN Pass("file_size")
                     ELSE Issue("file_size", "WARNING")
        mime_type == MimeType(f.extension)
        type      == IF ~on("file_type") THEN Skip("file_type")
                     ELSE IF mime_type \in AllowedTypes THEN Pass("file_type")
                     ELSE Issue("file_type", "ERROR")
        extension == IF ~on("file_extension") THEN Skip("file_extension")
                     ELSE IF f.extension \in AllowedExtensions THEN Pass("file_extension")
                     ELSE Issue("file_extension", "WARNING")
        name      == IF ~on("filename_format") THEN Skip("filename_format")
                     ELSE IF f.name_ok THEN Pass("filename_format")
                     ELSE Issue("filename_format", "INFO")
        encoding  == IF ~(on("encoding_detection") /\ IsTextType(mime_type))
                     THEN Skip("encoding_detection")
                     ELSE IF f.chardet \in {"confident", "not_installed"}
                     THEN Pass("encoding_detection")
                     ELSE IF f.chardet = "unsure" THEN Issue("encoding_detection", "WARNING")
                     ELSE Issue("encoding_detection", "ERROR")
        total     == Cardinality(DocumentRules)
    IN  IF ~f.exists THEN ShortCircuit(<<exists>>, total)
        \* mime_type is assigned only inside "if rules['file_type'].enabled"
        ELSE IF on("encoding_detection") /\ ~on("file_type") THEN Raises
        ELSE Finish(<<exists, access, size, type, extension, name, encoding>>, total)

(***************************************************************************)
(* ContentValidator.validate_content.  f = [blank, length, quality,        *)
(* language, encodable, structure_ok].                                     *)
(***************************************************************************)
ValidateContent(disabled, f) ==
    LET on(rule)  == rule \notin disabled
        not_empty == IF ~on("content_not_empty") THEN Skip("content_not_empty")
                     ELSE IF f.blank THEN Issue("content_not_empty", "CRITICAL")
                     ELSE Pass("content_not_empty")
        length    == IF ~on("content_length") THEN Skip("content_length")
                     ELSE IF f.length = "ok" THEN Pass("content_length")
                     ELSE Issue("content_length", "WARNING")
        quality   == IF ~on("text_quality") THEN Skip("text_quality")
                     ELSE IF f.quality = "ok" THEN Pass("text_quality")
                     ELSE Issue("text_quality", "WARNING")
        language  == IF ~on("language_detection") THEN Skip("language_detection")
                     ELSE IF f.language = "not_installed" THEN Pass("language_detection")
                     ELSE IssueAndPass("language_detection", "INFO")
        encoding  == IF ~on("encoding_consistency") THEN Skip("encoding_consistency")
                     ELSE IF f.encodable THEN Pass("encoding_consistency")
                     ELSE Issue("encoding_consistency", "ERROR")
        structure == IF ~on("structure_integrity") THEN Skip("structure_integrity")
                     ELSE IF f.structure_ok THEN Pass("structure_integrity")
                     ELSE Issue("structure_integrity", "WARNING")
        total     == Cardinality(ContentRules)
    IN  IF f.blank THEN ShortCircuit(<<not_empty>>, total)
        ELSE Finish(<<not_empty, length, quality, language, encoding, structure>>, total)

(***************************************************************************)
(* ChunkValidator.validate_chunks.  chunks = a sequence of                 *)
(* [text, ends_cleanly, metadata, overlap]: text is "blank", "ok" or   *)
(* "off_limits"; metadata is "none", "no_positions" or "complete"; overlap is  *)
(* how the chunk overlaps the next one ("expected", "off" or "none").      *)
(***************************************************************************)
ChunkChecks(disabled, chunk) ==
    LET on(rule)  == rule \notin disabled
        not_empty == IF ~on("chunk_not_empty") THEN Skip("chunk_not_empty")
                     ELSE IF chunk.text = "blank" THEN Issue("chunk_not_empty", "CRITICAL")
                     ELSE Pass("chunk_not_empty")
        size      == IF ~on("chunk_size_limits") THEN Skip("chunk_size_limits")
                     ELSE IF chunk.text = "ok" THEN Pass("chunk_size_limits")
                     ELSE Issue("chunk_size_limits", "WARNING")
        metadata  == IF ~on("metadata_consistency") THEN Skip("metadata_consistency")
                     ELSE IF chunk.metadata = "none"
                     THEN Issue("metadata_consistency", "WARNING")
                     ELSE IF chunk.metadata = "no_positions"
                     THEN Issue("metadata_consistency", "ERROR")
                     ELSE Pass("metadata_consistency")
        coherence == IF ~on("content_coherence") THEN Skip("content_coherence")
                     ELSE IF chunk.text = "blank" \/ chunk.ends_cleanly
                     THEN Pass("content_coherence")
                     ELSE Issue("content_coherence", "INFO")
    IN  <<not_empty, size, metadata, coherence>>

\* the check of chunks i and i+1 in the overlap loop (chunk_overlap = 200 > 0)
OverlapCheck(disabled, current, next) ==
    IF "overlap_validation" \in disabled THEN Skip("overlap_validation")
    ELSE IF ~(current.metadata = "complete" /\ next.metadata = "complete")
    THEN Skip("overlap_validation")
    ELSE IF current.overlap = "expected" THEN Pass("overlap_validation")
    ELSE Issue("overlap_validation", "WARNING")

RECURSIVE AllChunkChecks(_, _)
AllChunkChecks(disabled, chunks) ==
    IF chunks = <<>> THEN <<>>
    ELSE ChunkChecks(disabled, Head(chunks)) \o AllChunkChecks(disabled, Tail(chunks))

ValidateChunks(disabled, chunks) ==
    LET n        == Len(chunks)
        overlaps == [i \in 1 .. (n - 1) |-> OverlapCheck(disabled, chunks[i], chunks[i + 1])]
    IN  IF n = 0
        THEN ShortCircuit(<<Issue("chunk_not_empty", "CRITICAL")>>, Cardinality(ChunkRules))
        ELSE Finish(AllChunkChecks(disabled, chunks) \o overlaps, Cardinality(ChunkRules) * n)

(***************************************************************************)
(* MetadataValidator.validate_metadata.  f = [required_present, types_ok,  *)
(* emails, phones, urls, complete]; emails, phones and urls are "absent",  *)
(* "valid" or "invalid".                                                   *)
(***************************************************************************)
FormatCheck(disabled, rule, found) ==
    IF rule \in disabled THEN Skip(rule)
    ELSE IF found = "invalid" THEN Issue(rule, "WARNING")
    ELSE Pass(rule)

ValidateMetadata(disabled, f) ==
    LET on(rule)     == rule \notin disabled
        required     == IF ~on("required_fields") THEN Skip("required_fields")
                        ELSE IF f.required_present THEN Pass("required_fields")
                        ELSE Issue("required_fields", "ERROR")
        types        == IF ~on("field_types") THEN Skip("field_types")
                        ELSE IF f.types_ok THEN Pass("field_types")
                        ELSE Issue("field_types", "ERROR")
        completeness == IF ~on("completeness") THEN Skip("completeness")
                        ELSE IF f.complete THEN Pass("completeness")
                        ELSE IssueAndPass("completeness", "INFO")
    IN  Finish(<<required, types,
                 FormatCheck(disabled, "email_format", f.emails),
                 FormatCheck(disabled, "phone_format", f.phones),
                 FormatCheck(disabled, "url_format", f.urls),
                 completeness>>, Cardinality(MetadataRules))

(***************************************************************************)
(* Validators: actions.  One validator call per behaviour, on any rule     *)
(* setting and any input facts.                                            *)
(***************************************************************************)
FileFacts ==
    [exists : BOOLEAN, access : {"ok", "permission", "error"}, size_ok : BOOLEAN,
     extension : {".txt", ".pdf", ".html", ".bin"}, name_ok : BOOLEAN,
     chardet : {"confident", "not_installed", "unsure", "error"}]

ContentFacts ==
    [blank : BOOLEAN, length : {"ok", "off_limits"}, quality : {"ok", "poor"},
     language : {"detected", "not_installed", "error"}, encodable : BOOLEAN,
     structure_ok : BOOLEAN]

ChunkFacts ==
    [text : {"blank", "off_limits", "ok"}, ends_cleanly : BOOLEAN,
     metadata : {"none", "no_positions", "complete"}, overlap : {"expected", "off"}]

ChunkLists == UNION {[1 .. n -> ChunkFacts] : n \in 0 .. MaxChunks}

MetadataFacts ==
    [required_present : BOOLEAN, types_ok : BOOLEAN,
     emails : {"absent", "valid", "invalid"}, phones : {"absent", "valid", "invalid"},
     urls : {"absent", "valid", "invalid"}, complete : BOOLEAN]

Validated(validator, disabled, returned) ==
    [called |-> TRUE, validator |-> validator, disabled |-> disabled, result |-> returned]

DoValidateFile(disabled, f) ==
    /\ ~validated.called
    /\ validated' = Validated("document", disabled, ValidateFile(disabled, f))
    /\ UNCHANGED <<vmVars, ptVars, pipeVars, chunkVars, workerVars>>

DoValidateContent(disabled, f) ==
    /\ ~validated.called
    /\ validated' = Validated("content", disabled, ValidateContent(disabled, f))
    /\ UNCHANGED <<vmVars, ptVars, pipeVars, chunkVars, workerVars>>

DoValidateChunks(disabled, chunks) ==
    /\ ~validated.called
    /\ validated' = Validated("chunks", disabled, ValidateChunks(disabled, chunks))
    /\ UNCHANGED <<vmVars, ptVars, pipeVars, chunkVars, workerVars>>

DoValidateMetadata(disabled, f) ==
    /\ ~validated.called
    /\ validated' = Validated("metadata", disabled, ValidateMetadata(disabled, f))
    /\ UNCHANGED <<vmVars, ptVars, pipeVars, chunkVars, workerVars>>

\* the guard of the four actions is tested before their inputs are drawn
ValNext ==
    \/ /\ ~validated.called
       /\ \E disabled \in SUBSET DocumentRules, f \in FileFacts :
             DoValidateFile(disabled, f)
    \/ /\ ~validated.called
       /\ \E disabled \in SUBSET ContentRules, f \in ContentFacts :
             DoValidateContent(disabled, f)
    \/ /\ ~validated.called
       /\ \E disabled \in SUBSET ChunkRules, chunks \in ChunkLists :
             DoValidateChunks(disabled, chunks)
    \/ /\ ~validated.called
       /\ \E disabled \in SUBSET MetadataRules, f \in MetadataFacts :
             DoValidateMetadata(disabled, f)

SpecVal == Init /\ [][ValNext]_vars

(***************************************************************************)
(* Validators: properties.                                                 *)
(***************************************************************************)

\* C4: every ValidationResult returned by the document, content, chunk and
\* metadata validators has passed_checks <= total_checks, and is_valid is true
\* exactly when its issue list holds no issue of severity ERROR or CRITICAL,
\* on the short-circuit paths too and for any enabled/disabled rule setting.
C4_ResultConsistent ==
    (validated.called /\ ~validated.result.raised) =>
        /\ validated.result.passed_checks <= validated.result.total_checks
        /\ validated.result.is_valid <=>
              ~(\/ HasSeverity(validated.result.issues, "ERROR")
                \/ HasSeverity(validated.result.issues, "CRITICAL"))

(***************************************************************************)
(* Pipeline Orchestrator: the stages of ingest_document.                   *)
(***************************************************************************)
MaxIngests == 2       \* ingest_document / ingest_file calls in one behaviour

\* the configurations a pipeline is constructed with in this model: the
\* default one, and the default one with one setting changed
Configs ==
    {DefaultConfig,
     [DefaultConfig EXCEPT !.enable_versioning = FALSE],
     [DefaultConfig EXCEPT !.enable_validation = FALSE],
     [DefaultConfig EXCEPT !.stop_on_validation_error = TRUE],
     [DefaultConfig EXCEPT !.enable_progress_tracking = FALSE],
     [DefaultConfig EXCEPT !.enable_deduplication = FALSE],
     [DefaultConfig EXCEPT !.max_versions_per_document = 1]}

\* The file contents: content 0 is the 0-byte file, content 1 a text shorter
\* than min_chunk_size (100 characters), every other content a well-formed
\* text of 500 characters that ends with a full stop.
EmptyContent == 0

\* filenames handed to the pipeline; no parser supports ".xyz"
PipelineFilenames == {"Report.txt", "notes.xyz"}

\* Path(filename).suffix.lower()
Suffix(filename) ==
    CASE filename = "Report.txt" -> ".txt"
      [] filename = "report.md"  -> ".md"
      [] filename = "notes.xyz"  -> ".xyz"

\* DocumentParser.parse_document: raises ValueError when no parser supports
\* the format; text is "blank", "short" or "well_formed"
ParseDocument(content, filename) ==
    IF Suffix(filename) \notin {".txt", ".md", ".pdf", ".docx"}
    THEN [raised |-> TRUE, text |-> "", error |-> <<"Formato nao suportado", filename>>]
    ELSE [raised |-> FALSE,
          text   |-> IF content = EmptyContent THEN "blank"
                     ELSE IF content = 1 THEN "short"
                     ELSE "well_formed",
          error  |-> NoError]

\* the keys of a chunk's metadata after FixedSizeChunker.chunk_text and
\* enrich_chunk_metadata (text statistics, entities and structure included)
ChunkMetadataKeys ==
    {"strategy", "chunk_index", "total_chunks", "doc_metadata", "char_count",
     "word_count", "line_count", "paragraph_count", "language", "emails", "phones",
     "urls", "dates", "total_entities", "chunk_keywords", "has_headers", "has_lists",
     "has_tables", "has_code_blocks", "document_metadata", "relevance_score"}

\* required_fields of the metadata_consistency rule of validate_chunks
PositionFields == {"start_position", "end_position"}

\* how validate_chunks sees a chunk's metadata with these keys
ChunkMetadataKind(keys) ==
    IF keys = {} THEN "none"
    ELSE IF PositionFields \subseteq keys THEN "complete"
    ELSE "no_positions"

\* ChunkingSystem.chunk_document followed by enrich_chunk_metadata: no chunk
\* for a blank text; chunks shorter than min_chunk_size are dropped
ChunkDocument(text) ==
    IF text = "blank" THEN <<>>
    ELSE IF text = "short" THEN <<>>
    ELSE <<[text |-> "ok", ends_cleanly |-> TRUE,
            metadata |-> ChunkMetadataKind(ChunkMetadataKeys), overlap |-> "off"]>>

\* what validate_file finds of the temp file holding the content
PipelineFileFacts(content, filename) ==
    [exists |-> TRUE, access |-> "ok", size_ok |-> content # EmptyContent,
     extension |-> Suffix(filename), name_ok |-> TRUE,
     chardet |-> IF content = EmptyContent THEN "unsure" ELSE "confident"]

\* what validate_content finds of the parsed text
PipelineContentFacts(text) ==
    [blank |-> text = "blank", length |-> "ok", quality |-> "ok",
     language |-> "detected", encodable |-> TRUE, structure_ok |-> TRUE]

\* the top-level keys of the dict extract_metadata returns; the keys of
\* user_metadata go under 'custom_metadata', never to the top level
ExtractedMetadataKeys ==
    {"filename", "file_size", "extraction_timestamp", "content_hash", "char_count",
     "word_count", "line_count", "paragraph_count", "language", "emails", "phones",
     "urls", "dates", "total_entities", "auto_category", "extracted_keywords",
     "has_headers", "has_lists", "has_tables", "has_code_blocks", "parser_metadata",
     "all_tags"}

\* custom_params['required_fields'] of the required_fields rule
RequiredFields == {"file_name", "file_size", "created_at"}

\* what validate_metadata finds of the metadata of extract_metadata: the
\* entity lists of a text without e-mail addresses, phone numbers and URLs
PipelineMetadataFacts ==
    [required_present |-> RequiredFields \subseteq ExtractedMetadataKeys,
     types_ok |-> TRUE, emails |-> "valid", phones |-> "valid", urls |-> "valid",
     complete |-> FALSE]

Components == <<"document", "content", "chunks", "metadata">>

\* ValidationManager.validate_full_pipeline, every rule enabled
ValidateFullPipeline(content, filename, text, chunks) ==
    [document |-> ValidateFile({}, PipelineFileFacts(content, filename)),
     content  |-> ValidateContent({}, PipelineContentFacts(text)),
     chunks   |-> ValidateChunks({}, chunks),
     metadata |-> ValidateMetadata({}, PipelineMetadataFacts)]

\* ValidationManager.is_pipeline_valid
IsPipelineValid(validation_results) ==
    \A i \in DOMAIN Components : validation_results[Components[i]].is_valid

\* ValidationResult.get_issues_by_severity(CRITICAL), as rule names
CriticalIssuesOf(component, returned) ==
    LET found == SelectSeq(returned.issues, LAMBDA issue : issue.severity = "CRITICAL")
    IN  [i \in DOMAIN found |-> <<component, found[i].rule_name>>]

\* ValidationManager.get_critical_issues
GetCriticalIssues(validation_results) ==
    CriticalIssuesOf("document", validation_results.document)
        \o CriticalIssuesOf("content", validation_results.content)
        \o CriticalIssuesOf("chunks", validation_results.chunks)
        \o CriticalIssuesOf("metadata", validation_results.metadata)

\* the update_document_progress calls of one ingest_document, in order
RECURSIVE ApplyUpdates(_, _, _, _)
ApplyUpdates(pt, document_id, updates, t) ==
    IF updates = <<>> THEN pt
    ELSE ApplyUpdates(UpdateDocumentProgress(pt, document_id, Head(updates)[1],
                                             Head(updates)[2], t + 1),
                      document_id, Tail(updates), t + 1)

\* the update the orchestrator makes when a stage failed:
\* update_document_progress(tracking_id, FAILED, 100.0, {"error": ...}, FAILED)
ReportFailureAsStage == <<"FAILED", None>>
ReportFailure == <<"FAILED", "FAILED">>

\* IngestionPipeline.ingest_document.  temp_file_path tells whether the caller
\* supplied the path of a file holding the content; uuid is the fresh tracking
\* id, t the clock second, ts the created_at stamp, clock the tracker's clock.
\* The result holds the new Version Manager and tracker states with the
\* IngestionResult returned.
IngestDocument(cfg, vs, docs, pt, content, filename, temp_file_path, batch_id, uuid, t, ts, clock) ==
    LET tracking_id  == IF cfg.enable_progress_tracking THEN uuid ELSE NoDocument
        started      == IF cfg.enable_progress_tracking
                        THEN StartDocumentProcessing(pt, uuid, batch_id)
                        ELSE pt
        Track(updates) ==
            IF cfg.enable_progress_tracking
            THEN ApplyUpdates(started, tracking_id, updates, clock)
            ELSE pt
        parsed       == ParseDocument(content, filename)
        parsing      == <<<<"PARSING", None>>, <<"PARSING", "COMPLETED">>>>
        \* 2. the deduplication check, made only "if temp_file_path:"
        existing     == IF /\ cfg.enable_versioning
                           /\ cfg.enable_deduplication
                           /\ temp_file_path
                        THEN FindVersionByHash(vs, CalculateContentHash(content))
                        ELSE None
        \* 3. and 4. metadata extraction and chunking
        chunks       == ChunkDocument(parsed.text)
        extracting   == <<<<"METADATA_EXTRACTION", None>>,
                          <<"METADATA_EXTRACTION", "COMPLETED">>,
                          <<"CHUNKING", None>>, <<"CHUNKING", "COMPLETED">>>>
        \* 5. validation
        results      == ValidateFullPipeline(content, filename, parsed.text, chunks)
        valid        == IF cfg.enable_validation THEN IsPipelineValid(results) ELSE TRUE
        issues       == IF cfg.enable_validation THEN GetCriticalIssues(results) ELSE <<>>
        validating   == IF cfg.enable_validation
                        THEN <<<<"VALIDATION", None>>, <<"VALIDATION", "COMPLETED">>>>
                        ELSE <<>>
        \* 6. versioning
        created      == CreateDocumentVersion(vs, docs, content, filename, t, ts)
        processed    == UpdateProcessingInfo(created.versions, created.version.version_id,
                                             [chunks_count |-> Len(chunks),
                                              success      |-> TRUE])
        cleaned      == IF cfg.archive_old_versions
                        THEN CleanupOldVersions(processed, created.documents,
                                                created.version.document_id,
                                                cfg.max_versions_per_document)
                        ELSE [versions |-> processed, documents |-> created.documents]
        versioning   == IF cfg.enable_versioning
                        THEN <<<<"VERSIONING", None>>, <<"VERSIONING", "COMPLETED">>>>
                        ELSE <<>>
        \* 7. storage
        storing      == <<<<"STORAGE", None>>, <<"STORAGE", "COMPLETED">>,
                          <<"COMPLETED", "COMPLETED">>>>
    IN  IF parsed.raised
        THEN \* except Exception
             [versions |-> vs, documents |-> docs,
              pt       |-> Track(<<<<"PARSING", None>>, ReportFailure>>),
              reported |-> <<<<"PARSING", None>>, ReportFailure>>,
              updates  |-> 2,
              result   |-> WithError(IngestionResult(FALSE, NoVersion, 0, tracking_id,
                                                     FALSE, FALSE, TRUE, <<>>, FALSE),
                                     <<"Erro durante ingestao", filename, parsed.error>>)]
        ELSE IF existing # None
        THEN \* _create_duplicate_result
             [versions |-> vs, documents |-> docs,
              pt       |-> Track(parsing \o <<<<"COMPLETED", "COMPLETED">>>>),
              reported |-> parsing \o <<<<"COMPLETED", "COMPLETED">>>>,
              updates  |-> 3,
              result   |-> IngestionResult(TRUE, existing, 0, tracking_id, FALSE, FALSE,
                                           TRUE, <<>>, FALSE)]
        ELSE IF cfg.enable_validation /\ cfg.stop_on_validation_error /\ ~valid
        THEN [versions |-> vs, documents |-> docs,
              pt       |-> Track(parsing \o extracting \o validating
                                    \o <<ReportFailure>>),
              reported |-> parsing \o extracting \o validating \o <<ReportFailure>>,
              updates  |-> Len(parsing \o extracting \o validating) + 1,
              result   |-> WithError(IngestionResult(FALSE, NoVersion, 0, tracking_id,
                                                     TRUE, TRUE, valid, issues, FALSE),
                                     <<"Validacao critica falhou", filename>>)]
        ELSE [version   |-> created.version,
              versions  |-> IF cfg.enable_versioning THEN cleaned.versions ELSE vs,
              documents |-> IF cfg.enable_versioning THEN cleaned.documents ELSE docs,
              pt        |-> Track(parsing \o extracting \o validating \o versioning
                                     \o storing),
              reported  |-> parsing \o extracting \o validating \o versioning \o storing,
              updates   |-> Len(parsing \o extracting \o validating \o versioning
                                   \o storing),
              result    |-> IngestionResult(TRUE,
                                IF cfg.enable_versioning THEN created.version.version_id
                                ELSE NoVersion,
                                Len(chunks), tracking_id, TRUE, cfg.enable_validation,
                                valid, issues,
                                cfg.enable_versioning /\ created.created)]

(***************************************************************************)
(* Pipeline Orchestrator: actions.                                         *)
(***************************************************************************)
Ingest(content, filename, temp_file_path, batch_id) ==
    /\ ingests < MaxIngests
    /\ \E r \in {IngestDocument(config, versions, documents, TrackerState, content,
                               filename, temp_file_path, batch_id, uuids + 1, now,
                               stamp + 1, calls)} :
           /\ versions' = r.versions
           /\ documents' = r.documents
           /\ stamp' = IF r.result.created THEN stamp + 1 ELSE stamp
           /\ history' = IF r.result.created
                         THEN history \cup
                                 {[document_id    |-> r.version.document_id,
                                   version_number |-> r.version.version_number]}
                         ELSE history
           /\ tracked' = r.pt.documents
           /\ batches' = r.pt.batches
           /\ notifications' = r.pt.notifications
           /\ metrics' = r.pt.metrics
           /\ uuids' = IF config.enable_progress_tracking THEN uuids + 1 ELSE uuids
           /\ calls' = IF config.enable_progress_tracking THEN calls + r.updates ELSE calls
           /\ result' = r.result
           /\ lastIngest' = [called |-> TRUE, content |-> content, filename |-> filename,
                             temp_file_path |-> temp_file_path, missing |-> FALSE,
                             reported |-> IF config.enable_progress_tracking
                                          THEN r.reported ELSE <<>>]
    /\ ingests' = ingests + 1
    /\ lastCreate' = NoCreate
    /\ lastCleanup' = NoCleanup
    /\ lastUpdate' = NoUpdate
    /\ UNCHANGED <<now, config>>
    /\ UNCHANGED <<valVars, chunkVars, workerVars>>

\* ingest_document(file_content, filename), with or without temp_file_path
IngestBytes(content, filename, temp_file_path) ==
    Ingest(content, filename, temp_file_path, NoBatch)

\* ingest_file(file_path) of an existing file: ingest_document with the file's
\* content, its name, and the file's own path as temp_file_path
IngestFile(content, filename) == Ingest(content, filename, TRUE, NoBatch)

\* ingest_file(file_path) of a path that does not exist: FileNotFoundError is
\* caught and a failure result returned; ingest_document is never called
IngestMissingFile(filename) ==
    /\ result' = WithError(IngestionResult(FALSE, NoVersion, 0, NoDocument, FALSE, FALSE,
                                           TRUE, <<>>, FALSE),
                           <<"Erro ao processar arquivo", filename,
                             <<"Arquivo nao encontrado", filename>>>>)
    /\ lastIngest' = [called |-> TRUE, content |-> EmptyContent, filename |-> filename,
                      temp_file_path |-> FALSE, missing |-> TRUE, reported |-> <<>>]
    /\ lastCreate' = NoCreate
    /\ lastCleanup' = NoCleanup
    /\ lastUpdate' = NoUpdate
    /\ UNCHANGED <<versions, documents, now, stamp, history>>
    /\ UNCHANGED <<tracked, batches, notifications, metrics, uuids, calls>>
    /\ UNCHANGED <<config, ingests>>
    /\ UNCHANGED <<valVars, chunkVars, workerVars>>

PipeNext ==
    \/ \E c \in Contents, f \in PipelineFilenames, p \in BOOLEAN : IngestBytes(c, f, p)
    \/ \E c \in Contents, f \in PipelineFilenames : IngestFile(c, f)
    \/ \E f \in PipelineFilenames : IngestMissingFile(f)
    \/ \E id \in DOMAIN versions : VMArchive(id)
    \/ Tick

\* a pipeline constructed on empty storage paths, with any of the configurations
PipeInit ==
    /\ VMInit
    /\ PTInit
    /\ ValIdle
    /\ ChunkIdle
    /\ WorkerIdle
    /\ config \in Configs
    /\ result = NoResult
    /\ lastIngest = NoIngest
    /\ ingests = 0

SpecPipe == PipeInit /\ [][PipeNext]_vars

(***************************************************************************)
(* Pipeline Orchestrator: properties.                                      *)
(***************************************************************************)

\* the last step was an ingest_document / ingest_file call
Ingested == ingests' # ingests

\* the call's filename has a parser, so that parsing does not fail
Parseable(filename) == ~ParseDocument(EmptyContent, filename).raised

\* C8: when versioning and deduplication are enabled and the Version Manager
\* already holds a version with the content's hash, ingest_document (with or
\* without a temp file path) and ingest_file return success=true with that
\* version, without running the chunker or the validators, without creating a
\* version, and leaving the stored versions (status, processing_info) as they were.
C8_DedupShortCircuit ==
    [][(/\ Ingested
        /\ config.enable_versioning
        /\ config.enable_deduplication
        /\ Parseable(lastIngest'.filename)
        /\ HashStored(versions, lastIngest'.content))
       => /\ result'.success
          /\ result'.document_version
                = FindVersionByHash(versions, CalculateContentHash(lastIngest'.content))
          /\ ~result'.chunked
          /\ ~result'.validated
          /\ versions' = versions
          /\ documents' = documents]_vars

\* C9: ingesting the 0-byte document with the default configuration returns
\* success=false with the CRITICAL empty-content issue, and creates no version.
C9_EmptyDocumentFails ==
    [][(/\ Ingested
        /\ config = DefaultConfig
        /\ Parseable(lastIngest'.filename)
        /\ lastIngest'.content = EmptyContent)
       => /\ ~result'.success
          /\ \E i \in DOMAIN result'.validation_issues :
                result'.validation_issues[i] = <<"content", "content_not_empty">>
          /\ versions' = versions
          /\ documents' = documents]_vars

\* C10: when stop_on_validation_error is set and the aggregate pipeline
\* validation is invalid, ingest_document returns success=false with the
\* Version Manager's versions and documents unchanged, the tracked document
\* ends FAILED, and validation_issues is not empty.
C10_StopOnValidationError ==
    [][(/\ Ingested
        /\ config.stop_on_validation_error
        /\ result'.validated
        /\ ~result'.is_pipeline_valid)
       => /\ ~result'.success
          /\ versions' = versions
          /\ documents' = documents
          /\ tracked'[result'.tracking_id].status = "FAILED"
          /\ result'.validation_issues # <<>>]_vars

\* C11: ingesting a well-formed 500-byte text document into an empty store
\* with the default configuration succeeds with exactly 1 chunk, version
\* number 1.0.0, and a pipeline validation that is valid for all four components.
C11_WellFormedDocumentValid ==
    [][(/\ Ingested
        /\ config = DefaultConfig
        /\ versions = <<>>
        /\ Parseable(lastIngest'.filename)
        /\ ParseDocument(lastIngest'.content, lastIngest'.filename).text = "well_formed")
       => /\ result'.success
          /\ result'.chunks = 1
          /\ result'.document_version \in DOMAIN versions'
          /\ versions'[result'.document_version].version_number = <<1, 0, 0>>
          /\ result'.validated
          /\ result'.is_pipeline_valid]_vars

\* the last step was a call of ingest_document or ingest_file
Called == Ingested \/ (lastIngest'.missing /\ lastIngest' # lastIngest)

\* C12: ingest_document and ingest_file always return a result record; when a
\* stage fails (the parser rejects the format, the file is missing, validation
\* stops the run) the result has success=false with the original error
\* message, no later stage (chunker, validator, versioning) is invoked, and if
\* a tracking id was issued the tracked document is recorded as FAILED.
C12_NoFailureEscapes ==
    [][Called =>
        /\ result'.success = (result'.error_message = NoError)
        /\ (~lastIngest'.missing /\ ~Parseable(lastIngest'.filename))
              => /\ ~result'.success
                 /\ result'.error_message[3]
                       = ParseDocument(lastIngest'.content, lastIngest'.filename).error
                 /\ ~result'.chunked
                 /\ ~result'.validated
        /\ lastIngest'.missing
              => /\ ~result'.success
                 /\ result'.error_message[3] = <<"Arquivo nao encontrado", lastIngest'.filename>>
                 /\ ~result'.chunked
                 /\ ~result'.validated
                 /\ result'.tracking_id = NoDocument
                 /\ tracked' = tracked
        /\ ~result'.success
              => /\ result'.document_version = NoVersion
                 /\ versions' = versions
                 /\ documents' = documents
                 /\ result'.tracking_id # NoDocument
                       => tracked'[result'.tracking_id].status = "FAILED"]_vars

\* the parser rejected the format of a tracked ingest_document call
C12_Witness ==
    /\ lastIngest.called
    /\ ~lastIngest.missing
    /\ ~Parseable(lastIngest.filename)
    /\ ~result.success
    /\ result.tracking_id # NoDocument
    /\ tracked[result.tracking_id].status = "FAILED"

(***************************************************************************)
(* Chunking System.                                                        *)
(***************************************************************************)

\* longest text chunked, and largest chunk_size configured
MaxTextLen == 5
MaxChunkSize == 3

\* a text is a sequence of characters: a capital letter, a full stop, a space,
\* a line break
Characters == {"A", ".", " ", "\n"}
Whitespace == {" ", "\n"}
Texts == UNION {[1..n -> Characters] : n \in 0..MaxTextLen}

\* the configurations of the data model: overlap < target_size, min_size <= target_size
ChunkConfigs ==
    {c \in [chunk_size : 1..MaxChunkSize, chunk_overlap : 0..(MaxChunkSize - 1),
            strategy : {"fixed_size", "by_paragraph", "by_sentence"}, preserve_structure : BOOLEAN,
            min_chunk_size : 0..MaxChunkSize] :
        c.chunk_overlap < c.chunk_size /\ c.min_chunk_size <= c.chunk_size}

\* max(a, b) and min(a, b)
Larger(a, b) == IF a >= b THEN a ELSE b
Smaller(a, b) == IF a <= b THEN a ELSE b

\* text[start:end], with Python's 0-based offsets
Slice(s, start, end) == SubSeq(s, start + 1, end)

\* str.strip()
Strip(s) ==
    LET kept == {i \in 1..Len(s) : s[i] \notin Whitespace}
    IN  IF kept = {} THEN <<>>
        ELSE SubSeq(s, CHOOSE i \in kept : \A j \in kept : i <= j,
                       CHOOSE i \in kept : \A j \in kept : i >= j)

\* text.rfind(ch, start, end): the last offset in [start, end) holding ch, or -1
RFind(s, ch, start, end) ==
    LET found == {i \in start..(end - 1) : s[i + 1] = ch}
    IN  IF found = {} THEN -1 ELSE CHOOSE i \in found : \A j \in found : i >= j

\* Chunk(text, start_index, end_index, ...) with metadata['strategy']; origin
\* is <<>>, or for a chunk cut from an oversized paragraph or sentence the
\* start_index of that piece in the chunk sequence and the chunk's offsets
\* inside the piece
Chunk(chunk_text, start_index, end_index) ==
    [text |-> chunk_text, start_index |-> start_index, end_index |-> end_index,
     strategy |-> "fixed_size", origin |-> <<>>]

\* the end of the window starting at start_index: start_index + chunk_size,
\* moved back to just after the last line break or space when
\* preserve_structure is set and that break is past min_chunk_size
WindowEnd(cfg, s, start_index) ==
    LET end_index   == Smaller(start_index + cfg.chunk_size, Len(s))
        break_point == Larger(RFind(s, "\n", start_index, end_index),
                              RFind(s, " ", start_index, end_index))
    IN  IF /\ end_index < Len(s)
           /\ cfg.preserve_structure
           /\ break_point > start_index + cfg.min_chunk_size
        THEN break_point + 1
        ELSE end_index

\* start_index = max(end_index - chunk_overlap, start_index + 1)
NextStartNoFloor(cfg, start_index, end_index) == end_index - cfg.chunk_overlap
NextStart(cfg, start_index, end_index) ==
    Larger(end_index - cfg.chunk_overlap, start_index + 1)

\* the while loop of FixedSizeChunker.chunk_text
RECURSIVE FixedSizeLoop(_, _, _, _)
FixedSizeLoop(cfg, s, start_index, acc) ==
    IF start_index >= Len(s) THEN acc
    ELSE LET end_index  == WindowEnd(cfg, s, start_index)
             chunk_text == Strip(Slice(s, start_index, end_index))
         IN  FixedSizeLoop(cfg, s, NextStart(cfg, start_index, end_index),
                           IF Len(chunk_text) >= cfg.min_chunk_size
                           THEN Append(acc, Chunk(chunk_text, start_index, end_index))
                           ELSE acc)

\* FixedSizeChunker.chunk_text
FixedSizeChunkText(cfg, s) ==
    IF Len(s) <= cfg.chunk_size
    THEN <<Chunk(s, 0, Len(s))>>
    ELSE FixedSizeLoop(cfg, s, 0, <<>>)

\* the last position of the run of whitespace that starts at position i
RunEnd(s, i) ==
    CHOOSE j \in i..Len(s) :
        /\ \A k \in i..j : s[k] \in Whitespace
        /\ j = Len(s) \/ s[j + 1] \notin Whitespace

\* whether re.split cuts the text at the run of whitespace s[i..j]:
\* r'\n\s*\n' matches inside a run holding two line breaks;
\* r'(?<=[.!?])\s+(?=[A-Z])' matches a run after a full stop and before a capital
IsSeparator(strategy, s, i, j) ==
    IF strategy = "by_paragraph"
    THEN Cardinality({k \in i..j : s[k] = "\n"}) >= 2
    ELSE i > 1 /\ s[i - 1] = "." /\ j < Len(s) /\ s[j + 1] = "A"

\* re.split(pattern, text), then [p.strip() for p in pieces if p.strip()]
RECURSIVE SplitPieces(_, _, _, _, _)
SplitPieces(strategy, s, i, cur, acc) ==
    IF i > Len(s)
    THEN IF Strip(cur) = <<>> THEN acc ELSE Append(acc, Strip(cur))
    ELSE IF s[i] \notin Whitespace
    THEN SplitPieces(strategy, s, i + 1, Append(cur, s[i]), acc)
    ELSE LET j == RunEnd(s, i)
         IN  IF IsSeparator(strategy, s, i, j)
             THEN SplitPieces(strategy, s, j + 1, <<>>,
                              IF Strip(cur) = <<>> THEN acc ELSE Append(acc, Strip(cur)))
             ELSE SplitPieces(strategy, s, j + 1, cur \o SubSeq(s, i, j), acc)

\* what joins two paragraphs ("\n\n") or two sentences (" ") in one chunk
Joiner(strategy) == IF strategy = "by_paragraph" THEN <<"\n", "\n">> ELSE <<" ">>

\* _create_paragraph_chunk / _create_sentence_chunk
CreatePieceChunk(strategy, chunk_text, start_index) ==
    [text |-> chunk_text, start_index |-> start_index,
     end_index |-> start_index + Len(chunk_text), strategy |-> strategy, origin |-> <<>>]

\* ParagraphChunker._split_large_paragraph: the fixed-size chunks of the
\* paragraph, with start_index added to their offsets
SplitLargeParagraph(cfg, paragraph, start_index) ==
    LET para_chunks == FixedSizeChunkText(cfg, paragraph)
    IN  [i \in 1..Len(para_chunks) |->
            [para_chunks[i] EXCEPT
                !.start_index = @ + start_index,
                !.end_index = @ + start_index,
                !.strategy = "by_paragraph_split",
                !.origin = <<start_index, para_chunks[i].start_index,
                             para_chunks[i].end_index>>]]

\* SentenceChunker.chunk_text, the branch for a sentence longer than
\* chunk_size: the fixed-size chunks of the sentence, with their offsets as
\* the fixed-size chunker set them
SplitLargeSentence(cfg, sentence, start_index) ==
    LET sentence_chunks == FixedSizeChunkText(cfg, sentence)
    IN  [i \in 1..Len(sentence_chunks) |->
            [sentence_chunks[i] EXCEPT
                !.strategy = "by_sentence_split",
                !.origin = <<start_index, sentence_chunks[i].start_index,
                             sentence_chunks[i].end_index>>]]

\* the for loop of ParagraphChunker.chunk_text and of SentenceChunker.chunk_text,
\* with the last chunk added after it
RECURSIVE PackLoop(_, _, _, _, _)
PackLoop(cfg, pieces, current_chunk, start_index, acc) ==
    LET keep == /\ current_chunk # <<>>
                /\ Len(Strip(current_chunk)) >= cfg.min_chunk_size
        kept == IF keep
                THEN Append(acc, CreatePieceChunk(cfg.strategy, current_chunk, start_index))
                ELSE acc
    IN  IF pieces = <<>> THEN kept
        ELSE
        LET piece     == Head(pieces)
            potential == IF current_chunk # <<>>
                         THEN current_chunk \o Joiner(cfg.strategy) \o piece
                         ELSE piece
            after     == IF keep
                         THEN start_index + Len(current_chunk) + Len(Joiner(cfg.strategy))
                         ELSE start_index
        IN  IF Len(potential) <= cfg.chunk_size
            THEN PackLoop(cfg, Tail(pieces), potential, start_index, acc)
            ELSE IF Len(piece) > cfg.chunk_size
            THEN PackLoop(cfg, Tail(pieces), <<>>,
                          after + Len(piece) + Len(Joiner(cfg.strategy)),
                          kept \o (IF cfg.strategy = "by_paragraph"
                                   THEN SplitLargeParagraph(cfg, piece, after)
                                   ELSE SplitLargeSentence(cfg, piece, after)))
            ELSE PackLoop(cfg, Tail(pieces), piece, after, kept)

\* ParagraphChunker.chunk_text / SentenceChunker.chunk_text: the packed
\* pieces, or one chunk holding the whole stripped text when none was made
PackedChunkText(cfg, s) ==
    LET split  == SplitPieces(cfg.strategy, s, 1, <<>>, <<>>)
        pieces == IF split # <<>> THEN split
                  ELSE IF Strip(s) # <<>> THEN <<Strip(s)>> ELSE <<>>
        chunks == PackLoop(cfg, pieces, <<>>, 0, <<>>)
    IN  IF chunks = <<>> /\ Strip(s) # <<>>
        THEN <<[text |-> Strip(s), start_index |-> 0, end_index |-> Len(s),
                strategy |-> cfg.strategy, origin |-> <<>>]>>
        ELSE chunks

\* chunker.chunk_text of the chunker class configured
ChunkText(cfg, s) ==
    IF cfg.strategy = "fixed_size" THEN FixedSizeChunkText(cfg, s)
    ELSE PackedChunkText(cfg, s)

\* ChunkingSystem.chunk_document: no chunk for a blank text; the chunks of
\* the configured chunker, without those shorter than min_chunk_size
ChunkDocumentText(cfg, s) ==
    IF Strip(s) = <<>> THEN <<>>
    ELSE SelectSeq(ChunkText(cfg, s),
                   LAMBDA chunk : Len(Strip(chunk.text)) >= cfg.min_chunk_size)

DoChunkDocument ==
    /\ ~docChunks.called
    /\ docChunks' = [called |-> TRUE, chunks |-> ChunkDocumentText(chunkConfig, docText)]
    /\ UNCHANGED <<docText, chunkConfig, fixedLoop>>
    /\ UNCHANGED <<vmVars, ptVars, valVars, pipeVars, workerVars>>

ChunkNext == DoChunkDocument

\* a chunking system with any configuration, handed any text
ChunkInit ==
    /\ VMInit
    /\ PTInit
    /\ ValIdle
    /\ PipeIdle
    /\ docText \in Texts
    /\ chunkConfig \in ChunkConfigs
    /\ docChunks = NoChunking
    /\ fixedLoop = NoLoop
    /\ WorkerIdle

SpecChunk == ChunkInit /\ [][ChunkNext]_vars

(***************************************************************************)
(* Chunking System: properties.                                            *)
(***************************************************************************)

\* C13: for every strategy and every config, chunk_document on a non-blank
\* document whose length is below target_size returns exactly one chunk
\* spanning the whole document, regardless of min_size.
C13_ShortDocumentOneChunk ==
    (/\ docChunks.called
     /\ Strip(docText) # <<>>
     /\ Len(docText) < chunkConfig.chunk_size)
    => /\ Len(docChunks.chunks) = 1
       /\ docChunks.chunks[1].start_index = 0
       /\ docChunks.chunks[1].end_index = Len(docText)
       /\ docChunks.chunks[1].text = docText

\* C14: for fixed-size chunking with overlap > 0 and more than one returned
\* chunk, each chunk starts before the previous chunk's end (exactly overlap
\* characters before it when preserve_structure is off) and ends strictly
\* after it, the chunks at the tail of the document included.
C14_ConsecutiveChunksOverlap ==
    (/\ docChunks.called
     /\ chunkConfig.strategy = "fixed_size"
     /\ chunkConfig.chunk_overlap > 0
     /\ Len(docChunks.chunks) > 1)
    => \A i \in 1..(Len(docChunks.chunks) - 1) :
          /\ docChunks.chunks[i + 1].start_index < docChunks.chunks[i].end_index
          /\ ~chunkConfig.preserve_structure
                => docChunks.chunks[i + 1].start_index
                      = docChunks.chunks[i].end_index - chunkConfig.chunk_overlap
          /\ docChunks.chunks[i + 1].end_index > docChunks.chunks[i].end_index

(***************************************************************************)
(* Version Manager: properties of cleanup and of the document index.       *)
(***************************************************************************)

\* the keep_count newest versions of a document, by creation time
Newest(vs, document_id, keep_count) ==
    LET l == GetDocumentVersions(vs, document_id)
    IN  {l[i] : i \in 1..Smaller(keep_count, Len(l))}

\* the versions of the document that are neither among its keep_count newest nor ACTIVE
OldInactive(vs, document_id, keep_count) ==
    {id \in VersionsOf(vs, document_id) :
        id \notin Newest(vs, document_id, keep_count) /\ vs[id].status # "ACTIVE"}

\* C15: cleanup_old_versions(document_id, keep_count) deletes exactly the
\* versions of that document that are not among its keep_count newest and are
\* not ACTIVE, leaves every other version as it was, and when all older
\* versions are non-ACTIVE exactly keep_count versions of the document remain.
C15_CleanupDeletesOldInactive ==
    [][\A d \in DOMAIN documents, k \in 0..MaxKeep :
          VMCleanup(d, k)
          => /\ DOMAIN versions' = (DOMAIN versions) \ OldInactive(versions, d, k)
             /\ \A id \in DOMAIN versions' : versions'[id] = versions[id]
             /\ (/\ Cardinality(VersionsOf(versions, d)) >= k
                 /\ \A id \in VersionsOf(versions, d) \ Newest(versions, d, k) :
                       versions[id].status # "ACTIVE")
                   => Cardinality(VersionsOf(versions', d)) = k]_vars

\* cleanup has removed an archived old version of a document and kept a newer one
C15_Witness ==
    /\ lastCleanup.called
    /\ lastCleanup.removed # {}
    /\ VersionsOf(versions, lastCleanup.document_id) # {}

(***************************************************************************)
(* Progress Tracker: persistence and retention.                            *)
(***************************************************************************)

\* BatchProgress.in_progress_documents
InProgressDocuments(pt, batch_id) ==
    Cardinality({d \in pt.batches[batch_id].documents :
                    pt.documents[d].status = "IN_PROGRESS"})

\* the value of an Enum member, and the member with a value
NotificationType == {"INFO", "SUCCESS", "WARNING", "ERROR"}
EnumValue(member) ==
    CASE member = "UPLOAD"              -> "upload"
      [] member = "PARSING"             -> "parsing"
      [] member = "CHUNKING"            -> "chunking"
      [] member = "METADATA_EXTRACTION" -> "metadata_extraction"
      [] member = "VALIDATION"          -> "validation"
      [] member = "VERSIONING"          -> "versioning"
      [] member = "STORAGE"             -> "storage"
      [] member = "COMPLETED"           -> "completed"
      [] member = "FAILED"              -> "failed"
      [] member = "QUEUED"              -> "queued"
      [] member = "IN_PROGRESS"         -> "in_progress"
      [] member = "CANCELLED"           -> "cancelled"
      [] member = "INFO"                -> "info"
      [] member = "SUCCESS"             -> "success"
      [] member = "WARNING"             -> "warning"
      [] member = "ERROR"               -> "error"
EnumMember(enum, value) == CHOOSE member \in enum : EnumValue(member) = value

\* _batch_to_dict: the member documents are saved as the list of their ids
BatchToDict(batch) ==
    [total_documents |-> batch.total_documents,
     started_at      |-> batch.started_at,
     completed_at    |-> batch.completed_at,
     documents       |-> batch.documents]

\* _dict_to_batch, with the tracker's documents at the time of the call: a
\* saved id is reconnected only "if doc_id in self.documents"
DictToBatch(data, loaded) ==
    [total_documents |-> data.total_documents,
     documents       |-> {d \in data.documents : d \in DOMAIN loaded},
     started_at      |-> data.started_at,
     completed_at    |-> data.completed_at]

\* _document_to_dict
DocumentToDict(doc) ==
    [status        |-> EnumValue(doc.status),
     current_stage |-> EnumValue(doc.current_stage),
     updated_at    |-> doc.updated_at,
     metadata      |-> [batch_id |-> doc.batch_id],
     stages        |-> {<<EnumValue(stage), EnumValue(doc.stages[stage])>> :
                           stage \in DOMAIN doc.stages}]

\* _dict_to_document
DictToDocument(data) ==
    [status        |-> EnumMember(ProcessingStatus, data.status),
     current_stage |-> EnumMember(Stages, data.current_stage),
     stages        |-> [stage \in {EnumMember(Stages, e[1]) : e \in data.stages} |->
                           CHOOSE status \in ProcessingStatus :
                               <<EnumValue(stage), EnumValue(status)>> \in data.stages],
     batch_id      |-> data.metadata.batch_id,
     updated_at    |-> data.updated_at]

\* _notification_to_dict and _dict_to_notification
NotificationToDict(notif) == [notif EXCEPT !.type = EnumValue(@)]
DictToNotification(data) == [data EXCEPT !.type = EnumMember(NotificationType, @)]

\* _save_state: the contents of progress_state.json
SaveState(pt) ==
    [batches       |-> [b \in DOMAIN pt.batches |-> BatchToDict(pt.batches[b])],
     documents     |-> [d \in DOMAIN pt.documents |-> DocumentToDict(pt.documents[d])],
     notifications |-> [i \in DOMAIN pt.notifications |->
                           NotificationToDict(pt.notifications[i])],
     metrics       |-> pt.metrics]

\* _load_state in ProgressTracker.__init__: the batches are loaded first,
\* while self.documents is still empty, then the documents, the
\* notifications and the metrics
LoadState(state, t) ==
    [batches       |-> [b \in DOMAIN state.batches |-> DictToBatch(state.batches[b], <<>>)],
     documents     |-> [d \in DOMAIN state.documents |-> DictToDocument(state.documents[d])],
     notifications |-> [i \in DOMAIN state.notifications |->
                           DictToNotification(state.notifications[i])],
     metrics       |-> state.metrics,
     clock         |-> t]

\* clear_old_data, with cutoff_time = time.time() - days * 24 * 60 * 60; a
\* batch keeps the DocumentProgress objects it holds
ClearOldDataKeepMetrics(pt, cutoff_time) ==
    [pt EXCEPT !.documents = [d \in {x \in DOMAIN @ : @[x].updated_at >= cutoff_time} |-> @[d]],
               !.batches = [b \in {x \in DOMAIN @ : @[x].started_at >= cutoff_time} |-> @[b]],
               !.notifications = SelectSeq(@, LAMBDA notif : notif.timestamp >= cutoff_time)]
ClearOldData(pt, cutoff_time) ==
    LET old_docs    == {d \in DOMAIN pt.documents : pt.documents[d].updated_at < cutoff_time}
        old_batches == {b \in DOMAIN pt.batches : pt.batches[b].started_at < cutoff_time}
    IN  [pt EXCEPT !.documents = [d \in (DOMAIN @) \ old_docs |-> @[d]],
                   !.metrics = @ \ old_docs,
                   !.batches = [b \in (DOMAIN @) \ old_batches |-> @[b]],
                   !.notifications =
                       SelectSeq(@, LAMBDA notif : ~(notif.timestamp < cutoff_time))]

\* shutdown() saves the state; a ProgressTracker constructed on the same
\* storage path loads it
PTRestart ==
    /\ \E pt \in {LoadState(SaveState(TrackerState), now)} :
           /\ tracked' = pt.documents
           /\ batches' = pt.batches
           /\ notifications' = pt.notifications
           /\ metrics' = pt.metrics
    /\ lastUpdate' = NoUpdate
    /\ UNCHANGED <<uuids, calls>>
    /\ UNCHANGED <<vmVars, valVars, pipeVars, chunkVars, workerVars>>

PTClearOldData(cutoff_time) ==
    /\ \E pt \in {ClearOldData(TrackerState, cutoff_time)} :
           /\ tracked' = pt.documents
           /\ batches' = pt.batches
           /\ notifications' = pt.notifications
           /\ metrics' = pt.metrics
    /\ lastUpdate' = NoUpdate
    /\ UNCHANGED <<uuids, calls>>
    /\ UNCHANGED <<vmVars, valVars, pipeVars, chunkVars, workerVars>>

\* identifiers drawn for documents and batches, and update_document_progress
\* calls made, in one behaviour of the store
MaxStoreIds == 3
MaxStoreUpdates == 1

\* the updates made between saves: a stage begun, the document completed,
\* the document failed
StoreUpdates == {<<"PARSING", None>>, <<"COMPLETED", "COMPLETED">>, <<"FAILED", "FAILED">>}

\* the tracker's operations, with restarts, retention and the passing of time
StoreNext ==
    \/ /\ uuids < MaxStoreIds
       /\ \E b \in {NoBatch} \cup DOMAIN batches : PTStartDocument(b)
    \/ \E n \in 1 .. MaxBatchDocs :
          /\ uuids + 1 + n <= MaxStoreIds
          /\ PTStartBatch(n)
    \/ /\ calls < MaxStoreUpdates
       /\ \E d \in DOMAIN tracked, u \in StoreUpdates : PTUpdate(d, u[1], u[2])
    \/ PTRestart
    \/ \E c \in 0 .. (MaxTime + 1) : PTClearOldData(c)
    \/ Tick

SpecStore == Init /\ [][StoreNext]_vars

\* C16: a ProgressTracker constructed on a storage path holding a snapshot
\* restores every document, metrics record, notification and batch of the
\* snapshot, each batch's member-document references included, so that every
\* batch's derived counters equal their values at the time of the save.
C16_RestartRestoresBatches ==
    [][PTRestart =>
        /\ tracked' = tracked
        /\ metrics' = metrics
        /\ notifications' = notifications
        /\ DOMAIN batches' = DOMAIN batches
        /\ \A b \in DOMAIN batches :
              /\ batches'[b].documents = batches[b].documents
              /\ CompletedDocuments(TrackerState', b) = CompletedDocuments(TrackerState, b)
              /\ FailedDocuments(TrackerState', b) = FailedDocuments(TrackerState, b)
              /\ InProgressDocuments(TrackerState', b) = InProgressDocuments(TrackerState, b)
              /\ BatchOverallProgress(TrackerState', b) = BatchOverallProgress(TrackerState, b)
              /\ IsCompleted(TrackerState', b) = IsCompleted(TrackerState, b)]_vars

\* C17: clear_old_data removes exactly the documents (with their metrics)
\* whose updated_at is older than the cutoff, the batches whose started_at is
\* older and the notifications whose timestamp is older; every other record is
\* left unchanged, and no remaining batch references a removed document.
C17_ClearOldDataExact ==
    [][\A c \in 0 .. (MaxTime + 1) :
          PTClearOldData(c)
          => /\ DOMAIN tracked' = {d \in DOMAIN tracked : tracked[d].updated_at >= c}
             /\ \A d \in DOMAIN tracked' : tracked'[d] = tracked[d]
             /\ metrics' = metrics \cap DOMAIN tracked'
             /\ DOMAIN batches' = {b \in DOMAIN batches : batches[b].started_at >= c}
             /\ \A b \in DOMAIN batches' : batches'[b] = batches[b]
             /\ notifications' = SelectSeq(notifications, LAMBDA n : n.timestamp >= c)
             /\ \A b \in DOMAIN batches' : batches'[b].documents \subseteq DOMAIN tracked']_vars

\* clear_old_data has removed a batch and an old document, and kept a
\* document of that batch that was updated after the cutoff
C17_Witness ==
    /\ uuids = 3
    /\ batches = <<>>
    /\ Cardinality(DOMAIN tracked) = 1
    /\ \E d \in DOMAIN tracked :
          /\ tracked[d].batch_id # NoBatch
          /\ d \in metrics

\* the position of a stage in the ProcessingStage enum
StageIndex(stage) == CHOOSE i \in DOMAIN ProcessingStage : ProcessingStage[i] = stage

\* C18: during one ingest_document call the stages reported to the Progress
\* Tracker never move backwards in the ProcessingStage order UPLOAD, PARSING,
\* CHUNKING, METADATA_EXTRACTION, VALIDATION, VERSIONING, STORAGE, COMPLETED
\* (FAILED may follow any stage).
C18_StagesNeverMoveBackwards ==
    \A i, j \in DOMAIN lastIngest.reported :
        (/\ i < j
         /\ lastIngest.reported[i][1] # "FAILED"
         /\ lastIngest.reported[j][1] # "FAILED")
        => StageIndex(lastIngest.reported[i][1]) <= StageIndex(lastIngest.reported[j][1])

(***************************************************************************)
(* Progress Tracker: a document's overall progress.                        *)
(***************************************************************************)

\* update_document_progress calls on the one document whose stages are followed
MaxStageUpdates == 8

\* the stages of a document whose status is COMPLETED
CompletedStages(doc) == {stage \in DOMAIN doc.stages : doc.stages[stage] = "COMPLETED"}

\* total_stages = len(ProcessingStage) - 2
TotalStages == Len(ProcessingStage) - 2

\* DocumentProgress.overall_progress, in whole percent (rounded down)
OverallProgress(doc) ==
    IF TotalStages > 0 THEN (Cardinality(CompletedStages(doc)) * 100) \div TotalStages ELSE 0

\* one document, whose stages are completed one after the other in any order
StagesNext ==
    \/ /\ tracked = <<>>
       /\ PTStartDocument(NoBatch)
    \/ /\ calls < MaxStageUpdates
       /\ \E d \in DOMAIN tracked, s \in Stages : PTUpdateCall(d, s, "COMPLETED")

SpecStages == Init /\ [][StagesNext]_vars

\* C19: after any sequence of update_document_progress calls a document's
\* overall_progress is between 0 and 100: the number of stages counted as
\* COMPLETED never exceeds the stage total used as the denominator.
C19_OverallProgressWithinBounds ==
    \A d \in DOMAIN tracked :
        /\ Cardinality(CompletedStages(tracked[d])) <= TotalStages
        /\ OverallProgress(tracked[d]) >= 0
        /\ OverallProgress(tracked[d]) <= 100

\* the document ids of the index and of the stored versions
DocumentIds(vs, docs) == (DOMAIN docs) \cup {vs[id].document_id : id \in DOMAIN vs}

\* the documents index agrees with the stored versions
IndexConsistent(vs, docs) ==
    \A d \in DocumentIds(vs, docs) :
        /\ (d \in DOMAIN docs) <=> (VersionsOf(vs, d) # {})
        /\ d \in DOMAIN docs
              => /\ docs[d].version_count = Cardinality(VersionsOf(vs, d))
                 /\ docs[d].latest_version \in VersionsOf(vs, d)
                 /\ docs[d].latest_version = GetLatestVersion(vs, d)

\* C20: after any sequence of create_document_version, delete_version and
\* cleanup_old_versions calls, a document entry exists exactly when a version
\* with that document_id is stored, its version_count is the number of stored
\* versions of the document, and its latest-version pointer names the stored
\* version get_latest_version returns; delete_version removes only the named
\* version record.
C20_IndexConsistent ==
    [][/\ IndexConsistent(versions', documents')
       /\ \A id \in DOMAIN versions :
             VMDelete(id) => versions' = [x \in (DOMAIN versions) \ {id} |-> versions[x]]]_vars

\* C21: a version record is never silently overwritten: create_document_version
\* for content whose hash is not stored yet gets a version_id no stored version
\* has, adds one record and leaves every stored record as it was.
C21_NeverOverwritten ==
    [][(lastCreate'.called /\ ~HashStored(versions, lastCreate'.content)) =>
         /\ lastCreate'.version_id \notin DOMAIN versions
         /\ DOMAIN versions' = (DOMAIN versions) \cup {lastCreate'.version_id}
         /\ \A id \in DOMAIN versions : versions'[id] = versions[id]]_vars

(***************************************************************************)
(* Progress Tracker: the update thread and the calling thread.             *)
(***************************************************************************)

\* documents started and update_document_progress calls made by the calling
\* thread in one behaviour
MaxWorkerDocs == 1
MaxWorkerUpdates == 2

Other(th) == IF th = "caller" THEN "worker" ELSE "caller"

\* a method of the calling thread, or the update thread, enters _save_state
EnterSaveState(th) == [saver EXCEPT ![th] = [pc |-> "called", state |-> <<>>, with |-> <<>>]]

\* _save_state builds the state dict from the four maps
SaveSerialize(th) ==
    /\ saver[th].pc = "called"
    /\ saver' = [saver EXCEPT ![th].pc = "serialized",
                              ![th].state = <<SaveState(TrackerState)>>]
    /\ UNCHANGED <<running, update_queue, disk, callerPc, callerArgs, workerPc, atShutdown>>
    /\ UNCHANGED <<vmVars, ptVars, valVars, pipeVars, chunkVars>>

\* open(state_file, 'w') truncates the file; a thread that holds the file open
\* at the same time writes its bytes over the same positions
SaveOpen(th) ==
    /\ saver[th].pc = "serialized"
    /\ disk' = <<>>
    /\ saver' = IF saver[Other(th)].pc = "writing"
                THEN [saver EXCEPT ![th].pc = "writing",
                                   ![th].with = saver[Other(th)].state,
                                   ![Other(th)].with = saver[th].state]
                ELSE [saver EXCEPT ![th].pc = "writing"]
    /\ UNCHANGED <<running, update_queue, callerPc, callerArgs, workerPc, atShutdown>>
    /\ UNCHANGED <<vmVars, ptVars, valVars, pipeVars, chunkVars>>

\* what the file holds when the thread leaves the with block: the state it
\* dumped, or its bytes mixed with those of a different state written by the
\* other thread while both had the file open
Dumped(th) ==
    {saver[th].state} \cup
        (IF saver[th].with # <<>> /\ saver[th].with # saver[th].state
         THEN {saver[th].state \o saver[th].with}
         ELSE {})

\* json.dump and the end of the with block; _save_state returns to
\* start_document_processing, to shutdown, or to _process_updates, which
\* calls task_done and goes round its loop
SaveDump(th) ==
    /\ saver[th].pc = "writing"
    /\ disk' \in Dumped(th)
    /\ saver' = [saver EXCEPT ![th] = NotSaving]
    /\ callerPc' = IF th # "caller" THEN callerPc
                   ELSE IF callerPc = "shutdown" THEN "join" ELSE "idle"
    /\ workerPc' = IF th = "worker" THEN "loop" ELSE workerPc
    /\ UNCHANGED <<running, update_queue, callerArgs, atShutdown>>
    /\ UNCHANGED <<vmVars, ptVars, valVars, pipeVars, chunkVars>>

\* start_document_processing up to its call of _save_state
CallStartDocument ==
    /\ callerPc = "idle"
    /\ running
    /\ uuids < MaxWorkerDocs
    /\ \E pt \in {StartDocumentProcessing(TrackerState, uuids + 1, NoBatch)} :
           /\ tracked' = pt.documents
           /\ metrics' = pt.metrics
    /\ uuids' = uuids + 1
    /\ callerPc' = "start_document_processing"
    /\ saver' = EnterSaveState("caller")
    /\ lastUpdate' = NoUpdate
    /\ UNCHANGED <<batches, notifications, calls>>
    /\ UNCHANGED <<running, update_queue, disk, callerArgs, workerPc, atShutdown>>
    /\ UNCHANGED <<vmVars, valVars, pipeVars, chunkVars>>

\* update_document_progress up to doc.update_stage(...)
CallUpdateBegin(document_id, stage, status) ==
    /\ callerPc = "idle"
    /\ running
    /\ calls < MaxWorkerUpdates
    /\ document_id \in DOMAIN tracked
    /\ tracked' = [tracked EXCEPT ![document_id] = UpdateStage(@, stage, status, now)]
    /\ callerPc' = "update_document_progress"
    /\ callerArgs' = [called |-> TRUE, document_id |-> document_id,
                      stage |-> stage, status |-> status]
    /\ lastUpdate' = NoUpdate
    /\ UNCHANGED <<batches, notifications, metrics, uuids, calls>>
    /\ UNCHANGED <<running, update_queue, disk, saver, workerPc, atShutdown>>
    /\ UNCHANGED <<vmVars, valVars, pipeVars, chunkVars>>

\* the rest of update_document_progress: the document's status, the
\* notifications, the batch, and update_queue.put(('save_state', None))
CallUpdateEnd ==
    /\ callerPc = "update_document_progress"
    /\ \E pt \in {UpdateDocumentProgress(TrackerState, callerArgs.document_id,
                                         callerArgs.stage, callerArgs.status, calls + 1)} :
           /\ tracked' = pt.documents
           /\ batches' = pt.batches
           /\ notifications' = pt.notifications
           /\ metrics' = pt.metrics
    /\ calls' = calls + 1
    /\ lastUpdate' = callerArgs
    /\ update_queue' = update_queue + 1
    /\ callerPc' = "idle"
    /\ callerArgs' = NoUpdate
    /\ UNCHANGED uuids
    /\ UNCHANGED <<running, disk, saver, workerPc, atShutdown>>
    /\ UNCHANGED <<vmVars, valVars, pipeVars, chunkVars>>

\* shutdown: self.running = False, then the call of _save_state
CallShutdown ==
    /\ callerPc = "idle"
    /\ running
    /\ running' = FALSE
    /\ atShutdown' = <<SaveState(TrackerState)>>
    /\ callerPc' = "shutdown"
    /\ saver' = EnterSaveState("caller")
    /\ UNCHANGED <<update_queue, disk, callerArgs, workerPc>>
    /\ UNCHANGED <<vmVars, ptVars, valVars, pipeVars, chunkVars>>

\* update_thread.join returns because the update thread has ended
JoinEnded ==
    /\ callerPc = "join"
    /\ workerPc = "exited"
    /\ callerPc' = "returned"
    /\ UNCHANGED <<running, update_queue, disk, saver, callerArgs, workerPc, atShutdown>>
    /\ UNCHANGED <<vmVars, ptVars, valVars, pipeVars, chunkVars>>

\* update_thread.join(timeout=2.0) returns while the update thread is alive
JoinTimeout ==
    /\ callerPc = "join"
    /\ workerPc # "exited"
    /\ callerPc' = "returned"
    /\ UNCHANGED <<running, update_queue, disk, saver, callerArgs, workerPc, atShutdown>>
    /\ UNCHANGED <<vmVars, ptVars, valVars, pipeVars, chunkVars>>

\* _process_updates: while self.running
WorkerLoop ==
    /\ workerPc = "loop"
    /\ workerPc' = IF running THEN "get" ELSE "exited"
    /\ UNCHANGED <<running, update_queue, disk, saver, callerPc, callerArgs, atShutdown>>
    /\ UNCHANGED <<vmVars, ptVars, valVars, pipeVars, chunkVars>>

\* update_queue.get(timeout=1.0) returns ('save_state', None); _save_state is called
WorkerGet ==
    /\ workerPc = "get"
    /\ update_queue > 0
    /\ update_queue' = update_queue - 1
    /\ workerPc' = "save_state"
    /\ saver' = EnterSaveState("worker")
    /\ UNCHANGED <<running, disk, callerPc, callerArgs, atShutdown>>
    /\ UNCHANGED <<vmVars, ptVars, valVars, pipeVars, chunkVars>>

\* update_queue.get(timeout=1.0) raises queue.Empty; continue
WorkerEmpty ==
    /\ workerPc = "get"
    /\ update_queue = 0
    /\ workerPc' = "loop"
    /\ UNCHANGED <<running, update_queue, disk, saver, callerPc, callerArgs, atShutdown>>
    /\ UNCHANGED <<vmVars, ptVars, valVars, pipeVars, chunkVars>>

\* the updates the calling thread makes: a stage begun, the document
\* completed, the document failed
WorkerNext ==
    \/ \E th \in Threads : SaveSerialize(th)
    \/ \E th \in Threads : SaveOpen(th)
    \/ \E th \in Threads : SaveDump(th)
    \/ CallStartDocument
    \/ \E d \in DOMAIN tracked, u \in StoreUpdates : CallUpdateBegin(d, u[1], u[2])
    \/ CallUpdateEnd
    \/ CallShutdown
    \/ JoinEnded
    \/ JoinTimeout
    \/ WorkerLoop
    \/ WorkerGet
    \/ WorkerEmpty

SpecWorker == Init /\ [][WorkerNext]_vars

\* C22: after ProgressTracker.shutdown() has returned, progress_state.json
\* holds exactly the state the tracker had in memory when shutdown() was
\* called, whatever the interleaving of the update thread with the caller.
C22_ShutdownFlush ==
    callerPc = "returned" => disk = atShutdown

\* C23: every write of progress_state.json is made by the update thread, so
\* two writes never overlap in time, and no thread builds the state dict
\* while the calling thread is part-way through mutating the maps.
C23_SingleWriter ==
    [][/\ saver'["caller"].pc # "writing"
       /\ ~(saver'["caller"].pc = "writing" /\ saver'["worker"].pc = "writing")
       /\ SaveSerialize("worker") => callerPc # "update_document_progress"]_vars

\* C24: every chunk returned by chunk_document has a text of at most
\* chunk_size characters, for every strategy and every config with
\* chunk_overlap < chunk_size and min_chunk_size <= chunk_size, the whole-text
\* chunk of the by-paragraph and by-sentence strategies included.
C24_ChunksWithinTargetSize ==
    docChunks.called =>
        \A i \in 1..Len(docChunks.chunks) :
            Len(docChunks.chunks[i].text) <= chunkConfig.chunk_size

\* C25: in the by-paragraph and the by-sentence strategy, a chunk cut from an
\* oversized paragraph or sentence carries its offsets inside that piece plus
\* the start offset of the piece in the chunk sequence, so the start offsets
\* never decrease along the returned sequence.
C25_SplitChunksCarryDocumentOffsets ==
    (docChunks.called /\ chunkConfig.strategy \in {"by_paragraph", "by_sentence"})
    => /\ \A i \in 1..Len(docChunks.chunks) :
             docChunks.chunks[i].origin # <<>>
                => /\ docChunks.chunks[i].start_index
                         = docChunks.chunks[i].origin[2] + docChunks.chunks[i].origin[1]
                   /\ docChunks.chunks[i].end_index
                         = docChunks.chunks[i].origin[3] + docChunks.chunks[i].origin[1]
       /\ \A i \in 1..(Len(docChunks.chunks) - 1) :
             docChunks.chunks[i].start_index <= docChunks.chunks[i + 1].start_index

(***************************************************************************)
(* Chunking System: the while loop of the fixed-size chunker, step by step.*)
(***************************************************************************)

\* longest text and largest chunk_size, chunk_overlap and min_chunk_size of
\* the step-by-step runs
MaxLoopTextLen == 4
MaxLoopSize == 2

\* the texts: a letter, a space, a line break
LoopTexts == UNION {[1..n -> Characters \ {"."}] : n \in 0..MaxLoopTextLen}

\* every ChunkConfig of the fixed-size strategy, chunk_overlap >= chunk_size
\* and min_chunk_size > chunk_size included, and chunk_size 0 (the dataclass
\* checks nothing)
LoopConfigs ==
    [chunk_size : 0..MaxLoopSize, chunk_overlap : 0..MaxLoopSize,
     strategy : {"fixed_size"}, preserve_structure : BOOLEAN,
     min_chunk_size : 0..MaxLoopSize]

\* chunk_text on a text of at most chunk_size characters: one chunk, no loop
FixedShort ==
    /\ fixedLoop.pc = "idle"
    /\ Len(docText) <= chunkConfig.chunk_size
    /\ fixedLoop' = [fixedLoop EXCEPT !.pc = "done",
                                      !.chunks = <<Chunk(docText, 0, Len(docText))>>]
    /\ UNCHANGED <<docText, chunkConfig, docChunks>>
    /\ UNCHANGED <<vmVars, ptVars, valVars, pipeVars, workerVars>>

\* chunk_text on a longer text: start_index = 0, and the loop is entered
FixedEnter ==
    /\ fixedLoop.pc = "idle"
    /\ Len(docText) > chunkConfig.chunk_size
    /\ fixedLoop' = [fixedLoop EXCEPT !.pc = "while"]
    /\ UNCHANGED <<docText, chunkConfig, docChunks>>
    /\ UNCHANGED <<vmVars, ptVars, valVars, pipeVars, workerVars>>

\* one iteration of while start_index < text_length
FixedStep ==
    /\ fixedLoop.pc = "while"
    /\ fixedLoop.start_index < Len(docText)
    /\ LET end_index  == WindowEnd(chunkConfig, docText, fixedLoop.start_index)
           chunk_text == Strip(Slice(docText, fixedLoop.start_index, end_index))
       IN  fixedLoop' =
              [fixedLoop EXCEPT
                  !.start_index = NextStart(chunkConfig, fixedLoop.start_index, end_index),
                  !.iterations = @ + 1,
                  !.chunks = IF Len(chunk_text) >= chunkConfig.min_chunk_size
                             THEN Append(@, Chunk(chunk_text, fixedLoop.start_index,
                                                  end_index))
                             ELSE @]
    /\ UNCHANGED <<docText, chunkConfig, docChunks>>
    /\ UNCHANGED <<vmVars, ptVars, valVars, pipeVars, workerVars>>

\* the loop condition fails; chunk_text returns the chunks
FixedReturn ==
    /\ fixedLoop.pc = "while"
    /\ fixedLoop.start_index >= Len(docText)
    /\ fixedLoop' = [fixedLoop EXCEPT !.pc = "done"]
    /\ UNCHANGED <<docText, chunkConfig, docChunks>>
    /\ UNCHANGED <<vmVars, ptVars, valVars, pipeVars, workerVars>>

LoopNext == FixedShort \/ FixedEnter \/ FixedStep \/ FixedReturn

\* a fixed-size chunker with any configuration, handed any text
LoopInit ==
    /\ VMInit
    /\ PTInit
    /\ ValIdle
    /\ PipeIdle
    /\ WorkerIdle
    /\ docText \in LoopTexts
    /\ chunkConfig \in LoopConfigs
    /\ docChunks = NoChunking
    /\ fixedLoop = NoLoop

SpecLoop == LoopInit /\ [][LoopNext]_vars

\* C26: fixed-size chunking terminates: each iteration of the loop moves
\* start_index strictly forward, for every text and every config
\* (chunk_overlap >= chunk_size and windows cut back to a word boundary
\* included), so the loop makes at most len(text) iterations.
C26_FixedSizeTerminates ==
    [][/\ FixedStep => fixedLoop'.start_index > fixedLoop.start_index
       /\ fixedLoop'.iterations <= Len(docText)]_vars

\* the loop has ended after one iteration per character, under a config whose
\* overlap is not below its chunk size
C26_Witness ==
    /\ fixedLoop.pc = "done"
    /\ Len(docText) > 2
    /\ fixedLoop.iterations = Len(docText)
    /\ chunkConfig.chunk_overlap >= chunkConfig.chunk_size

(***************************************************************************)
(* Ingestion Pipeline: properties of the versions kept, of the tracked     *)
(* document and of the batch.                                              *)
(***************************************************************************)

\* C27: with enable_versioning and archive_old_versions set, after every
\* successful ingest_document the document ingested has at most
\* max_versions_per_document stored versions.
C27_AtMostMaxVersions ==
    [][(/\ ingests' = ingests + 1
        /\ config.enable_versioning
        /\ config.archive_old_versions
        /\ result'.success
        /\ result'.document_version \in DOMAIN versions')
       => Cardinality(VersionsOf(versions', versions'[result'.document_version].document_id))
             <= config.max_versions_per_document]_vars

\* C28: with progress tracking enabled, every ingest_document call that was
\* given a tracking id returns with the tracked document in the terminal
\* status that matches its result: COMPLETED when result.success is true,
\* FAILED when it is false, never QUEUED or IN_PROGRESS.
C28_TrackedStatusMatchesResult ==
    [][(/\ ingests' = ingests + 1
        /\ config.enable_progress_tracking
        /\ result'.tracking_id # NoDocument)
       => /\ result'.tracking_id \in DOMAIN tracked'
          /\ tracked'[result'.tracking_id].status =
                IF result'.success THEN "COMPLETED" ELSE "FAILED"]_vars

\* an ingest has failed and an ingest has succeeded, each with a tracking id
C28_Witness ==
    /\ lastIngest.called
    /\ config.enable_progress_tracking
    /\ result.tracking_id # NoDocument
    /\ ~result.success
    /\ \E d \in DOMAIN tracked : tracked[d].status = "COMPLETED"
    /\ tracked[result.tracking_id].status = "FAILED"

\* start_batch_processing(filenames) with n filenames, on a pipeline whose
\* progress tracking is enabled
StartBatchProcessing(n) ==
    /\ config.enable_progress_tracking
    /\ batches = <<>>
    /\ ingests = 0
    /\ PTStartBatch(n)

\* ingest_document(content, filename, batch_id=b) for one of the batch's files
IngestInBatch(content, filename, temp_file_path, b) ==
    /\ ingests < batches[b].total_documents
    /\ Ingest(content, filename, temp_file_path, b)

\* a batch is started, then each of its files is ingested with its batch_id
BatchNext ==
    \/ \E n \in 1 .. MaxBatchDocs : StartBatchProcessing(n)
    \/ \E b \in DOMAIN batches, c \in Contents, f \in PipelineFilenames, p \in BOOLEAN :
          IngestInBatch(c, f, p, b)

SpecBatch == PipeInit /\ [][BatchNext]_vars

\* C29: when a batch is made by start_batch_processing(filenames) and each of
\* its files is then ingested with that batch_id, every ingest's outcome is
\* counted in the batch's completed and failed documents, so after the last
\* ingest the batch is completed and its completed_at is set.
C29_BatchCountsIngests ==
    \A b \in DOMAIN batches :
        /\ CompletedDocuments(TrackerState, b) + FailedDocuments(TrackerState, b) = ingests
        /\ ingests = batches[b].total_documents
              => /\ IsCompleted(TrackerState, b)
                 /\ batches[b].completed_at # NotCompleted

\* C30: whenever a tracked document has reached status COMPLETED through the
\* orchestrator (with validation or versioning enabled or disabled, and on
\* the duplicate short-circuit path), its overall_progress is 100.
C30_CompletedMeansFullProgress ==
    \A d \in DOMAIN tracked :
        tracked[d].status = "COMPLETED" => OverallProgress(tracked[d]) = 100

====
